---- MODULE Spec2Model ----
(***************************************************************************)
(* A model of the FinRisk Vista RAG core: UnifiedRAGService                *)
(* (app/services/rag_service.py) and PDFProcessorService                   *)
(* (app/services/pdf_processor.py).                                        *)
(*                                                                         *)
(* Python strings are TLA+ strings (Len, SubSeq and \o act on them), so    *)
(* substring tests, slicing, split() and lower() are computed on the       *)
(* characters.  Python floats are exact rationals [n, d] with d > 0; the   *)
(* value d = 0 is NaN.  Texts and the size constants that cut them are     *)
(* scaled down (see the bounds below).                                     *)
(***************************************************************************)
EXTENDS Integers, Sequences, FiniteSets, TLC

VARIABLES
    (* ---- the query pipeline (UnifiedRAGService.intelligent_qa) ---- *)
    config,            \* self.config, set by __init__
    sentence_model,    \* self.sentence_model is not None
    heap,              \* the Document objects: the loaded vectorstore's docstore
                       \* first, then the Documents _compress_context creates
    nstore,            \* how many of heap's Documents belong to the vectorstore
    query,             \* intelligent_qa's argument
    conversation_history,
    pc,                \* the statement intelligent_qa is at
    processed_query,
    documents,         \* _advanced_retrieve's working list (references into heap)
    relevant_docs,
    qa_prompt,
    answer,
    final_answer,
    confidence_score,
    citations,
    explanation,
    result,            \* what intelligent_qa returned
    cos_sim,           \* util.cos_sim(query, document) for each vectorstore Document
    compressed_docs,   \* _compress_context's list
    key_concepts,      \* _multi_hop_retrieval: the concepts still to search for
    additional_docs,   \* _multi_hop_retrieval's list
    trace,             \* history: what the run did (stages that raised, lists returned)
    (* ---- one document's files under Config.STORAGE_PATH ---- *)
    storage_file,      \* {document_id}.json: the run of process_pdf that wrote it
    vectorstore_dir,   \* {document_id}_vectorstore, written by save_local
    metadata_file,     \* {document_id}_vectorstore_metadata.json
    build_pc,          \* the statement each run of process_pdf is at
    query_pc,          \* the statement query_pdf is at
    loaded,            \* history: the index location as query_pdf met it
    (* ---- _semantic_chunking on the chunks of one document ---- *)
    nlp,               \* self.nlp is not None
    chunk,             \* the chunk of the loop's turn
    features,          \* its semantic_features
    type_of_chunk,     \* its chunk_type
    importance_of_chunk, \* its importance_score
    chunk_pc,          \* the statement the turn is at
    analysed,          \* history: for each chunk text, the results computed for it
    (* ---- batch_query_pdf on one document ---- *)
    queries,           \* batch_query_pdf's argument
    results,           \* its list of results
    batch_i,           \* the turn its loop is at (1-based)
    batch_raised,      \* history: the turns whose query_pdf raised
    (* ---- entity extraction on one text span ---- *)
    span,              \* the text handed to the extractors, phrase by phrase
    key_entities,      \* PDFProcessorService._extract_key_entities' dict
    key_info,          \* UnifiedRAGService._extract_key_information's dict
    extracted,         \* which of the two extractors has returned
    (* ---- the risk-analysis background tasks (main.py) ---- *)
    background_tasks_status,  \* the module's dict: task id -> status entry
    frame,             \* each run_risk_analysis_task's statement and locals
    running,           \* the coroutine that holds the event loop (0: none)
    status_response,   \* what the last get_analysis_status answered
    (* ---- RiskAnalyzerService.analyze_risks ---- *)
    prompts,           \* its argument: the prompt keys
    paragraphs,        \* its argument: the paragraph dicts
    ainvoke_raises,    \* the (prompt key, text) pairs whose chain.ainvoke raises
    prompt_i,          \* the turn of the loop over prompts (1-based)
    tasks,             \* the coroutines to gather: their prompt key and paragraph
    analyzer_pc,       \* the statement analyze_risks is at
    analysis           \* what analyze_risks returned or raised

qaVars == <<config, sentence_model, heap, nstore, query, conversation_history,
            pc, processed_query, documents, relevant_docs, qa_prompt, answer,
            final_answer, confidence_score, citations, explanation, result,
            cos_sim, compressed_docs, key_concepts, additional_docs, trace>>

indexVars == <<storage_file, vectorstore_dir, metadata_file, build_pc, query_pc, loaded>>

chunkVars == <<nlp, chunk, features, type_of_chunk, importance_of_chunk, chunk_pc,
               analysed>>

batchVars == <<queries, results, batch_i, batch_raised>>

entityVars == <<span, key_entities, key_info, extracted>>

\* the services beside the index and the query pipeline
taskVars == <<background_tasks_status, frame, running, status_response>>

analyzerVars == <<prompts, paragraphs, ainvoke_raises, prompt_i, tasks, analyzer_pc,
                  analysis>>

apiVars == <<entityVars, taskVars, analyzerVars>>

vars == <<qaVars, indexVars, chunkVars, batchVars, apiVars>>

(***************************************************************************)
(* Bounds of the model.                                                    *)
(***************************************************************************)
MaxStore == 4          \* chunks in a document's vector index
MaxTopK == 2           \* config["rerank_top_k"] ranges over 1..MaxTopK
SigLen == 8            \* stands for the 100 characters of a content signature
AnswerTarget == 40     \* stands for the 500 characters of a complete answer
ParagraphRun == 12     \* stands for the 100 characters of _format_answer's {100,}
PreviewLen == 10       \* stands for the 150 and 200 characters of a content preview
CompressionInput == 16 \* stands for the 1500 characters _compress_context passes on
MaxRuns == 2           \* runs of process_pdf for the one document id
MediumWords == 3       \* stands for the 50 words where the length band begins
LongWords == 6         \* stands for the 200 words where the length band ends

(***************************************************************************)
(* Python floats as exact rationals; NaN is the value with d = 0.          *)
(***************************************************************************)
Abs(x) == IF x < 0 THEN -x ELSE x

Min2(a, b) == IF a < b THEN a ELSE b

RECURSIVE Gcd(_, _)
Gcd(a, b) == IF b = 0 THEN a ELSE Gcd(b, a % b)

Rat(n, d) == LET g == Gcd(Abs(n), d) IN [n |-> n \div g, d |-> d \div g]

NaN == [n |-> 0, d |-> 0]

IsNaN(x) == x.d = 0

Zero == Rat(0, 1)

One == Rat(1, 1)

RAdd(a, b) == IF IsNaN(a) \/ IsNaN(b) THEN NaN ELSE Rat(a.n * b.d + b.n * a.d, a.d * b.d)

RMul(a, b) == IF IsNaN(a) \/ IsNaN(b) THEN NaN ELSE Rat(a.n * b.n, a.d * b.d)

\* a < b, a <= b, a > b as Python compares floats: every comparison with NaN is False
RLt(a, b) == ~IsNaN(a) /\ ~IsNaN(b) /\ a.n * b.d < b.n * a.d

RLe(a, b) == ~IsNaN(a) /\ ~IsNaN(b) /\ a.n * b.d <= b.n * a.d

RGt(a, b) == RLt(b, a)

\* Python's min(a, b): b if b < a else a
PyMin(a, b) == IF RLt(b, a) THEN b ELSE a

\* numpy.mean of a list of floats: NaN (with a RuntimeWarning) for the empty list
RECURSIVE RSum(_)
RSum(xs) == IF xs = <<>> THEN Zero ELSE RAdd(Head(xs), RSum(Tail(xs)))

NpMean(xs) == IF xs = <<>> THEN NaN ELSE RMul(RSum(xs), Rat(1, Len(xs)))

(***************************************************************************)
(* Python str operations.                                                  *)
(***************************************************************************)
CharAt(s, i) == SubSeq(s, i, i)

\* s[:n]
Take(s, n) == SubSeq(s, 1, Min2(n, Len(s)))

\* s[i:] counted from 1
From(s, i) == SubSeq(s, i, Len(s))

\* sub in s
IsSubstr(sub, s) == \E i \in 1..(Len(s) - Len(sub) + 1) : SubSeq(s, i, i + Len(sub) - 1) = sub

IsSpace(c) == c \in {" ", "\n", "\t"}

IsDigit(c) == c \in {"0", "1", "2", "3", "4", "5", "6", "7", "8", "9"}

UpperChars == "ABCDEFGHIJKLMNOPQRSTUVWXYZ"

LowerChars == "abcdefghijklmnopqrstuvwxyz"

LowerChar(c) ==
    IF \E i \in 1..Len(UpperChars) : CharAt(UpperChars, i) = c
    THEN CharAt(LowerChars, CHOOSE i \in 1..Len(UpperChars) : CharAt(UpperChars, i) = c)
    ELSE c

\* s.lower()
RECURSIVE Lower(_)
Lower(s) ==
    IF Len(s) = 0 THEN ""
    ELSE IF Len(s) = 1 THEN LowerChar(s)
    ELSE Lower(SubSeq(s, 1, Len(s) \div 2)) \o Lower(SubSeq(s, Len(s) \div 2 + 1, Len(s)))

\* the first position at or after i whose character satisfies / does not satisfy
\* IsSpace; Len(s) + 1 when there is none
NextSpace(s, i) ==
    IF \E j \in i..Len(s) : IsSpace(CharAt(s, j))
    THEN CHOOSE j \in i..Len(s) : IsSpace(CharAt(s, j)) /\ \A k \in i..(j - 1) : ~IsSpace(CharAt(s, k))
    ELSE Len(s) + 1

NextNonSpace(s, i) ==
    IF \E j \in i..Len(s) : ~IsSpace(CharAt(s, j))
    THEN CHOOSE j \in i..Len(s) : ~IsSpace(CharAt(s, j)) /\ \A k \in i..(j - 1) : IsSpace(CharAt(s, k))
    ELSE Len(s) + 1

LastNonSpace(s) ==
    IF \E j \in 1..Len(s) : ~IsSpace(CharAt(s, j))
    THEN CHOOSE j \in 1..Len(s) : ~IsSpace(CharAt(s, j)) /\ \A k \in (j + 1)..Len(s) : IsSpace(CharAt(s, k))
    ELSE 0

\* s.strip()
Strip(s) == SubSeq(s, NextNonSpace(s, 1), LastNonSpace(s))

\* s.split(): the whitespace-separated words, in order
RECURSIVE SplitFrom(_, _)
SplitFrom(s, i) ==
    LET b == NextNonSpace(s, i)
        e == NextSpace(s, b)
    IN  IF b > Len(s) THEN <<>> ELSE <<SubSeq(s, b, e - 1)>> \o SplitFrom(s, e)

Split(s) == SplitFrom(s, 1)

Range(f) == {f[i] : i \in DOMAIN f}

\* set(s.split())
Terms(s) == Range(Split(s))

\* sep.join(xs)
RECURSIVE Join(_, _)
Join(sep, xs) ==
    IF xs = <<>> THEN ""
    ELSE IF Len(xs) = 1 THEN xs[1]
    ELSE xs[1] \o sep \o Join(sep, Tail(xs))

\* xs[:n] of a list
TakeSeq(xs, n) == SubSeq(xs, 1, Min2(n, Len(xs)))

(***************************************************************************)
(* Python dicts are functions on their keys.                               *)
(***************************************************************************)
\* m.get(k, default)
Get(m, k, default) == IF k \in DOMAIN m THEN m[k] ELSE default

\* m[k] = v
Put(m, k, v) == (k :> v) @@ m

(***************************************************************************)
(* UnifiedRAGService.__init__: the default configuration and the keyword   *)
(* dictionary.                                                             *)
(***************************************************************************)
\* config["similarity_threshold"]
SimilarityThreshold == Rat(7, 10)

\* self.financial_keywords, in the dict's insertion order
FinancialKeywords ==
    << <<"risk_types",
         <<"market risk", "credit risk", "operational risk", "liquidity risk",
           "regulatory risk", "reputational risk", "cybersecurity risk",
           "interest rate risk", "currency risk", "commodity risk">> >>,
       <<"regulations",
         <<"SOX", "SEC", "FINRA", "Basel", "Dodd-Frank", "GAAP", "IFRS",
           "COSO", "PCAOB", "FDIC", "OCC">> >>,
       <<"financial_metrics",
         <<"VaR", "leverage ratio", "capital ratio", "ROE", "ROA", "debt to equity",
           "current ratio", "quick ratio", "gross margin", "net margin", "EBITDA">> >>,
       <<"risk_indicators",
         <<"risk", "uncertainty", "threat", "challenge", "exposure", "vulnerability",
           "adverse", "negative", "decline", "loss", "deficit", "concern", "issue">> >>,
       <<"financial_statements",
         <<"balance sheet", "income statement", "cash flow statement",
           "statement of equity", "10-K", "10-Q", "8-K", "annual report",
           "quarterly report">> >> >>

\* self.financial_keywords[category]
KeywordsOf(category) ==
    (CHOOSE e \in Range(FinancialKeywords) : e[1] = category)[2]

\* the terms of all categories, in the order "for category, terms in ...items():
\* for term in terms" visits them
AllKeywordTerms ==
    FinancialKeywords[1][2] \o FinancialKeywords[2][2] \o FinancialKeywords[3][2]
        \o FinancialKeywords[4][2] \o FinancialKeywords[5][2]

(***************************************************************************)
(* Query preprocessing.                                                    *)
(***************************************************************************)
\* the text "之前问题：" (5 characters, no blank) that introduces a previous question
PreviousQuestion == "prev:"

UserTurns(items) ==
    SelectSeq(items, LAMBDA item : Get(item, "role", "") = "user")

ContextLines(items) ==
    [i \in 1..Len(items) |-> PreviousQuestion \o Get(items[i], "content", "")]

\* history[-2:]
LastTwo(history) ==
    SubSeq(history, IF Len(history) > 2 THEN Len(history) - 1 ELSE 1, Len(history))

_extract_conversation_context(history) ==
    IF history = <<>> THEN ""
    ELSE Join(" ", ContextLines(UserTurns(LastTwo(history))))

RiskContext(query_lower) ==
    SelectSeq(KeywordsOf("risk_types"),
              LAMBDA rt : \E word \in Terms(rt) : IsSubstr(word, query_lower))

RECURSIVE RegulationExpansions(_, _)
RegulationExpansions(regulations, query_lower) ==
    IF regulations = <<>> THEN <<>>
    ELSE (IF IsSubstr(Lower(Head(regulations)), query_lower)
          THEN <<Head(regulations) \o " compliance">> ELSE <<>>)
         \o RegulationExpansions(Tail(regulations), query_lower)

Expansions(q) ==
    LET query_lower == Lower(q)
        risk == IF IsSubstr("risk", query_lower)
                THEN TakeSeq(RiskContext(query_lower), 3) ELSE <<>>
    IN  risk \o RegulationExpansions(KeywordsOf("regulations"), query_lower)

_expand_financial_terms(q) ==
    LET expansions == Expansions(q)
    IN  IF expansions # <<>> THEN q \o " (" \o Join(" OR ", expansions) \o ")" ELSE q

_preprocess_query(q, history) ==
    LET processed == Strip(q)
        context == _extract_conversation_context(history)
    IN  _expand_financial_terms(
            IF history # <<>> /\ context # "" THEN context \o " " \o processed
            ELSE processed)

MultiHopIndicators ==
    <<"compare", "relationship", "impact", "cause", "effect",
      "correlation", "trend", "change", "difference", "connection">>

AnyIn(words, text) == \E i \in DOMAIN words : IsSubstr(words[i], text)

_requires_multi_hop_reasoning(q) == AnyIn(MultiHopIndicators, Lower(q))

_classify_query_type(q) ==
    LET query_lower == Lower(q)
    IN  IF AnyIn(<<"risk", "exposure", "threat", "vulnerability">>, query_lower)
            THEN "risk_analysis"
        ELSE IF AnyIn(<<"compliance", "regulation", "sox", "sec">>, query_lower)
            THEN "compliance"
        ELSE IF AnyIn(<<"financial", "revenue", "profit", "loss", "metric">>, query_lower)
            THEN "financial_analysis"
        ELSE IF AnyIn(<<"compare", "difference", "vs", "versus">>, query_lower)
            THEN "comparison"
        ELSE IF AnyIn(<<"trend", "change", "over time", "historical">>, query_lower)
            THEN "trend_analysis"
        ELSE "general"

DisclaimerTriggers ==
    <<"investment", "invest", "buy", "sell", "recommendation",
      "advice", "should", "suggest", "recommend">>

_requires_disclaimer(q) == AnyIn(DisclaimerTriggers, Lower(q))

(***************************************************************************)
(* Documents.  A langchain Document is [page_content, metadata]; the lists *)
(* of the pipeline hold references (indices into heap), as the Python      *)
(* lists hold references to the docstore's objects.                        *)
(***************************************************************************)
Content(h, r) == h[r].page_content

Meta(h, r) == h[r].metadata

\* doc.metadata[k] = v for the Document r
SetMeta(h, r, k, v) == [h EXCEPT ![r].metadata = Put(@, k, v)]

\* sorted(xs, key=..., reverse=True) and list.sort(key=..., reverse=True): stable,
\* equal keys keep their order.  key[r] is the key of reference r.
RECURSIVE InsertDesc(_, _, _)
InsertDesc(x, sorted, key) ==
    IF sorted = <<>> THEN <<x>>
    ELSE IF RLt(key[Head(sorted)], key[x]) THEN <<x>> \o sorted
    ELSE <<Head(sorted)>> \o InsertDesc(x, Tail(sorted), key)

RECURSIVE SortAppend(_, _, _)
SortAppend(done, todo, key) ==
    IF todo = <<>> THEN done
    ELSE SortAppend(InsertDesc(Head(todo), done, key), Tail(todo), key)

SortedDesc(xs, key) == SortAppend(<<>>, xs, key)

(***************************************************************************)
(* _keyword_filter                                                         *)
(***************************************************************************)
QueryTerms(q) == Terms(Lower(q))

\* sum(1 for term in query_terms if term in content_lower) / len(query_terms)
KeywordScore(query_terms, content_lower) ==
    Rat(Cardinality({t \in query_terms : IsSubstr(t, content_lower)}),
        Cardinality(query_terms))

FinancialScore(query_terms, content_lower) ==
    Cardinality({i \in DOMAIN AllKeywordTerms :
        /\ IsSubstr(AllKeywordTerms[i], content_lower)
        /\ \E qt \in query_terms : IsSubstr(qt, AllKeywordTerms[i])})

\* keyword_score * 0.7 + min(financial_score / 10, 1.0) * 0.3
TotalScore(keyword_score, financial_score) ==
    RAdd(RMul(keyword_score, Rat(7, 10)),
         RMul(PyMin(Rat(financial_score, 10), One), Rat(3, 10)))

\* the comparison that keeps a document
PassesFilter(total_score) == RGt(total_score, RMul(SimilarityThreshold, Rat(1, 2)))

RECURSIVE FilterLoop(_, _, _, _)
FilterLoop(query_terms, docs, h, kept) ==
    IF docs = <<>> THEN [heap |-> h, docs |-> kept]
    ELSE LET r == Head(docs)
             content_lower == Lower(Content(h, r))
             keyword_score == KeywordScore(query_terms, content_lower)
             financial_score == FinancialScore(query_terms, content_lower)
             total_score == TotalScore(keyword_score, financial_score)
         IN  IF PassesFilter(total_score)
             THEN FilterLoop(query_terms, Tail(docs),
                      SetMeta(SetMeta(SetMeta(h, r, "keyword_score", keyword_score),
                                      r, "financial_score", financial_score),
                              r, "total_score", total_score),
                      Append(kept, r))
             ELSE FilterLoop(query_terms, Tail(docs), h, kept)

\* raises ZeroDivisionError when the query has no term and docs is not empty
KeywordFilterRaises(q, docs) == docs # <<>> /\ QueryTerms(q) = {}

\* [heap, docs]: the metadata it set and the list it returns
_keyword_filter(q, docs, h) ==
    LET out == FilterLoop(QueryTerms(q), docs, h, <<>>)
        key == [r \in DOMAIN out.heap |-> Get(Meta(out.heap, r), "total_score", Zero)]
    IN  [heap |-> out.heap, docs |-> SortedDesc(out.docs, key)]

(***************************************************************************)
(* _intelligent_reranking                                                  *)
(***************************************************************************)
TypeWeights ==
    [risk_disclosure |-> Rat(1, 1), compliance |-> Rat(9, 10),
     financial_data |-> Rat(8, 10), management_analysis |-> Rat(7, 10),
     regulatory |-> Rat(8, 10), risk_assessment |-> Rat(9, 10),
     general |-> Rat(5, 10)]

\* cos is util.cos_sim of the query's and the document's embeddings
_calculate_rerank_score(has_model, cos, metadata) ==
    LET semantic == IF has_model THEN RMul(cos, Rat(4, 10)) ELSE Rat(2, 10)
        keyword_score == Get(metadata, "keyword_score", Zero)
        importance_score == Get(metadata, "importance_score", Rat(1, 2))
        chunk_type == Get(metadata, "chunk_type", "general")
        score == RAdd(RAdd(RAdd(semantic, RMul(keyword_score, Rat(3, 10))),
                           RMul(importance_score, Rat(2, 10))),
                      RMul(Get(TypeWeights, chunk_type, Rat(5, 10)), Rat(1, 10)))
    IN  PyMin(score, One)

RECURSIVE RerankLoop(_, _, _, _)
RerankLoop(has_model, cos, docs, h) ==
    IF docs = <<>> THEN h
    ELSE RerankLoop(has_model, cos, Tail(docs),
             SetMeta(h, Head(docs), "rerank_score",
                 _calculate_rerank_score(has_model, cos[Head(docs)], Meta(h, Head(docs)))))

\* the reranker without its sort
RerankSort_unsorted(docs, h) == docs

\* reranked.sort(key=rerank_score, reverse=True)
RerankSort(docs, h) ==
    SortedDesc(docs, [r \in DOMAIN h |-> Get(Meta(h, r), "rerank_score", Zero)])

\* [heap, docs]
\* the whole sorted list is returned
_intelligent_reranking_untruncated(has_model, cos, docs, h, top_k) ==
    LET scored == RerankLoop(has_model, cos, docs, h)
    IN  [heap |-> scored, docs |-> RerankSort(docs, scored)]

_intelligent_reranking(has_model, cos, docs, h, top_k) ==
    LET scored == RerankLoop(has_model, cos, docs, h)
    IN  [heap |-> scored, docs |-> TakeSeq(RerankSort(docs, scored), top_k)]

(***************************************************************************)
(* _multi_hop_retrieval                                                    *)
(***************************************************************************)
\* the keyword terms found in docs[:3], in the order they are appended
RECURSIVE ConceptMentions(_, _)
ConceptMentions(docs, h) ==
    IF docs = <<>> THEN <<>>
    ELSE LET content_lower == Lower(Content(h, Head(docs)))
         IN  SelectSeq(AllKeywordTerms, LAMBDA term : IsSubstr(term, content_lower))
                 \o ConceptMentions(Tail(docs), h)

Count(xs, x) == Cardinality({i \in DOMAIN xs : xs[i] = x})

FirstAt(xs, x) == CHOOSE i \in DOMAIN xs : xs[i] = x /\ \A j \in 1..(i - 1) : xs[j] # x

\* Counter(xs).most_common(n): by count, ties in order of first appearance
RECURSIVE MostCommonFrom(_, _, _)
MostCommonFrom(xs, left, n) ==
    IF n = 0 \/ left = {} THEN <<>>
    ELSE LET best == CHOOSE x \in left : \A y \in left :
                        \/ Count(xs, x) > Count(xs, y)
                        \/ Count(xs, x) = Count(xs, y) /\ FirstAt(xs, x) <= FirstAt(xs, y)
         IN  <<best>> \o MostCommonFrom(xs, left \ {best}, n - 1)

MostCommon(xs, n) == MostCommonFrom(xs, Range(xs), n)

_extract_key_concepts_from_docs(docs, h) ==
    MostCommon(ConceptMentions(TakeSeq(docs, 3), h), 5)

\* content_signature = doc.page_content[:100]
ContentSignature(h, r) == Take(Content(h, r), SigLen)

\* the loop that keeps the last Document of each signature
RECURSIVE DedupLoop_last_wins(_, _, _, _)
DedupLoop_last_wins(docs, h, seen_content, unique_docs) ==
    IF docs = <<>> THEN unique_docs
    ELSE IF \E i \in DOMAIN Tail(docs) :
                ContentSignature(h, Tail(docs)[i]) = ContentSignature(h, Head(docs))
         THEN DedupLoop_last_wins(Tail(docs), h, seen_content, unique_docs)
         ELSE DedupLoop_last_wins(Tail(docs), h, seen_content, Append(unique_docs, Head(docs)))


RECURSIVE DedupLoop(_, _, _, _)
DedupLoop(docs, h, seen_content, unique_docs) ==
    IF docs = <<>> THEN unique_docs
    ELSE IF ContentSignature(h, Head(docs)) \notin seen_content
         THEN DedupLoop(Tail(docs), h, seen_content \cup {ContentSignature(h, Head(docs))},
                        Append(unique_docs, Head(docs)))
         ELSE DedupLoop(Tail(docs), h, seen_content, unique_docs)

\* the merge without its signature test
_deduplicate_documents_keep_all(docs, h) == docs

_deduplicate_documents(docs, h) == DedupLoop(docs, h, {}, <<>>)

\* the return statement of _multi_hop_retrieval
MergeHops(initial_docs, additional, h, top_k) ==
    TakeSeq(_deduplicate_documents(initial_docs \o additional, h), top_k)

(***************************************************************************)
(* The fixed texts of the service.  The Chinese texts are written in ASCII *)
(* with the same number of characters, the same blanks and no digit.       *)
(***************************************************************************)
\* _generate_answer's fallback (27 characters, one word)
GenerationFailedAnswer == "sorry-problem!~rephrase-it~"

\* _verify_facts' warning (18 characters: two words and a blank line)
VerificationWarning == "!! needs-checks!\n\n"

\* _post_process_answer's disclaimer (40 characters)
Disclaimer == "\n\n!! disclaimer:reference-only;ask-advis"

\* the sentence end that _format_answer breaks paragraphs at
FullStop == "~"

\* the answer of intelligent_qa's except branch, for the exception's text e
ErrorAnswer(e) == "query-failed: " \o e

ZeroDivisionError == "division by zero"

(***************************************************************************)
(* _verify_facts, _format_answer, _post_process_answer                     *)
(***************************************************************************)
\* the first position at or after i that holds no digit
DigitsEnd(s, i) ==
    IF \E j \in i..Len(s) : ~IsDigit(CharAt(s, j))
    THEN CHOOSE j \in i..Len(s) : ~IsDigit(CharAt(s, j)) /\ \A k \in i..(j - 1) : IsDigit(CharAt(s, k))
    ELSE Len(s) + 1

HasDigitFrom(s, i) == \E j \in i..Len(s) : IsDigit(CharAt(s, j))

\* re.findall(r'\d+(?:\.\d+)?%?', s) from position i
RECURSIVE FindNumbers(_, _)
FindNumbers(s, i) ==
    IF ~HasDigitFrom(s, i) THEN <<>>
    ELSE LET b == CHOOSE j \in i..Len(s) : IsDigit(CharAt(s, j)) /\ \A k \in i..(j - 1) : ~IsDigit(CharAt(s, k))
             e1 == DigitsEnd(s, b)
             e2 == IF e1 + 1 <= Len(s) /\ CharAt(s, e1) = "." /\ IsDigit(CharAt(s, e1 + 1))
                   THEN DigitsEnd(s, e1 + 1) ELSE e1
             e3 == IF e2 <= Len(s) /\ CharAt(s, e2) = "%" THEN e2 + 1 ELSE e2
         IN  <<SubSeq(s, b, e3 - 1)>> \o FindNumbers(s, e3)

PageContents(docs, h) == [i \in 1..Len(docs) |-> Content(h, docs[i])]

_verify_facts(ans, docs, h) ==
    LET numbers == FindNumbers(ans, 1)
        all_doc_content == Join(" ", PageContents(docs, h))
        verified_numbers == SelectSeq(numbers, LAMBDA num : IsSubstr(num, all_doc_content))
        verification_ratio == IF numbers # <<>> THEN Rat(Len(verified_numbers), Len(numbers))
                              ELSE One
    IN  IF RLt(verification_ratio, Rat(1, 2)) THEN VerificationWarning \o ans ELSE ans

\* the first FullStop at or after i; Len(s) + 1 when there is none
NextStop(s, i) ==
    IF \E j \in i..Len(s) : CharAt(s, j) = FullStop
    THEN CHOOSE j \in i..Len(s) : CharAt(s, j) = FullStop /\ \A k \in i..(j - 1) : CharAt(s, k) # FullStop
    ELSE Len(s) + 1

\* re.sub(r'。([^。]{100,})', r'。\n\n\1', s) from position i
RECURSIVE BreakParagraphs(_, _)
BreakParagraphs(s, i) ==
    LET stop == NextStop(s, i)
        next == NextStop(s, stop + 1)
    IN  IF stop > Len(s) THEN SubSeq(s, i, Len(s))
        ELSE IF next - stop - 1 >= ParagraphRun
             THEN SubSeq(s, i, stop) \o "\n\n" \o SubSeq(s, stop + 1, next - 1)
                      \o BreakParagraphs(s, next)
             ELSE SubSeq(s, i, stop) \o BreakParagraphs(s, stop + 1)

_format_answer(ans) ==
    IF Len(ans) > AnswerTarget THEN BreakParagraphs(ans, 1) ELSE ans

_post_process_answer(ans, q, docs, h) ==
    LET formatted_answer == _format_answer(_verify_facts(ans, docs, h))
    IN  IF _requires_disclaimer(q) THEN formatted_answer \o Disclaimer ELSE formatted_answer

(***************************************************************************)
(* _calculate_confidence, _generate_citations                              *)
(***************************************************************************)
RerankScores(docs, h) ==
    [i \in 1..Len(docs) |-> Get(Meta(h, docs[i]), "rerank_score", Rat(1, 2))]

\* raises ZeroDivisionError when the query has no term
ConfidenceRaises(q) == QueryTerms(q) = {}

_calculate_confidence(q, docs, ans, h) ==
    LET doc_quality == NpMean(RerankScores(docs, h))
        answer_completeness == PyMin(Rat(Len(ans), AnswerTarget), One)
        query_terms == QueryTerms(q)
        answer_terms == Terms(Lower(ans))
        keyword_match == Rat(Cardinality(query_terms \cap answer_terms),
                             Cardinality(query_terms))
        doc_count_score == PyMin(Rat(Len(docs), 5), One)
        has_specific_data == HasDigitFrom(ans, 1)
        confidence ==
            RAdd(RAdd(RAdd(RAdd(RMul(doc_quality, Rat(4, 10)),
                                RMul(answer_completeness, Rat(2, 10))),
                           RMul(keyword_match, Rat(2, 10))),
                      RMul(doc_count_score, Rat(1, 10))),
                 IF has_specific_data THEN Rat(1, 10) ELSE Zero)
    IN  PyMin(confidence, One)

CitationKeys == {"document_index", "chunk_index", "importance_score"}

Citation(i, doc) ==
    [id |-> i,
     content_preview |-> Take(doc.page_content, PreviewLen) \o "...",
     relevance_score |-> Get(doc.metadata, "rerank_score", Zero),
     document_type |-> Get(doc.metadata, "chunk_type", "unknown"),
     metadata |-> [k \in DOMAIN doc.metadata \cap CitationKeys |-> doc.metadata[k]]]

\* numbering from enumerate's own index
_generate_citations_zero_based(docs, h) ==
    [i \in 1..Len(docs) |-> Citation(i - 1, h[docs[i]])]

_generate_citations(docs, h) == [i \in 1..Len(docs) |-> Citation(i, h[docs[i]])]

\* the fallback of _generate_explanation
ExplanationFallback(docs) == "based on " \o ToString(Len(docs)) \o " chunks"

RelevantDocument(doc) ==
    [content |-> Take(doc.page_content, PreviewLen) \o "...",
     metadata |-> doc.metadata,
     relevance_score |-> Get(doc.metadata, "rerank_score", Zero)]

\* the dict intelligent_qa returns (processing_time left out)
QaResult(q, ans, conf, cites, expl, docs, h) ==
    [query |-> q, answer |-> ans, confidence_score |-> conf, citations |-> cites,
     explanation |-> expl,
     relevant_documents |-> [i \in 1..Len(docs) |-> RelevantDocument(h[docs[i]])],
     retrieval_strategy |-> "advanced_hybrid",
     documents_retrieved |-> Len(docs)]

\* the dict of intelligent_qa's except branch
QaError(q, e) ==
    [query |-> q, answer |-> ErrorAnswer(e), confidence_score |-> Zero,
     citations |-> <<>>, explanation |-> "system error",
     relevant_documents |-> <<>>, retrieval_strategy |-> "error",
     documents_retrieved |-> 0]

(***************************************************************************)
(* The inputs of the query pipeline: the chunks a document's index may     *)
(* hold (with the metadata _semantic_chunking gave them), the requests,    *)
(* the configurations and the texts the language model may return.         *)
(***************************************************************************)
None == "None"

Chunk(text, importance, type) ==
    [page_content |-> text,
     metadata |-> [importance_score |-> importance, chunk_type |-> type]]

\* each with the cosine similarity the sentence model reports for it
ChunkPool ==
    << [doc |-> Chunk("alpha risk 5% loss", Rat(4, 5), "risk_disclosure"), cos |-> Rat(1, 2)],
       [doc |-> Chunk("alpha risk and threat", Rat(1, 2), "general"), cos |-> Rat(9, 10)],
       [doc |-> Chunk("beta compare alpha loss", Zero, "general"), cos |-> Rat(-1, 1)],
       [doc |-> Chunk("gamma buy alpha 2024", Rat(1, 5), "financial_data"), cos |-> Zero] >>

\* the sequences without repetition over S of length 0..n
RECURSIVE Arrangements(_, _)
Arrangements(S, n) ==
    IF n = 0 THEN {<<>>}
    ELSE LET shorter == Arrangements(S, n - 1)
         IN  shorter \cup {Append(a, x) : a \in {b \in shorter : Len(b) = n - 1},
                                          x \in S}

\* the vector stores: 1..MaxStore chunks of the pool, nearest first in either
\* direction of the pool
Stores ==
    LET rising(ix) == \A i \in 1..(Len(ix) - 1) : ix[i] < ix[i + 1]
        falling(ix) == \A i \in 1..(Len(ix) - 1) : ix[i] > ix[i + 1]
    IN  { [i \in 1..Len(ix) |-> ChunkPool[ix[i]]] :
            ix \in {a \in Arrangements(DOMAIN ChunkPool, MaxStore) :
                        a # <<>> /\ (rising(a) \/ falling(a))} }

Turn(role, content) == [role |-> role, content |-> content]

\* a comparison whose terms are found in most chunks of the pool
LongComparison == "compare alpha a"

Requests ==
    { [query |-> "alpha", history |-> <<>>],
      [query |-> "compare loss", history |-> <<>>],
      [query |-> " risk ", history |-> <<>>],
      [query |-> LongComparison, history |-> <<>>],
      [query |-> "", history |-> <<>>],
      [query |-> "alpha",
       history |-> <<Turn("user", "beta"), Turn("assistant", "ok"), Turn("user", "sell")>>] }

Configs ==
    [retrieval_k : (MaxStore - 1)..MaxStore, rerank_top_k : 1..MaxTopK,
     use_reranking : BOOLEAN, use_compression : BOOLEAN]

\* what self.llm may return for the answer prompt
LlmAnswers == {" ", "alpha 5% loss\n", "risk of 42~ alpha is a threat in every single year"}

\* what self.llm returns for the compression prompt with this context
LlmCompression(context) == " " \o Take(context, SigLen + 1) \o "\n"

LlmExplanation == " from the chunks "

NoTrace ==
    [raised |-> {}, answered |-> {}, candidates |-> <<>>, rerank_ran |-> FALSE, reranked |-> <<>>,
     retrieve_returned |-> FALSE, retrieved |-> <<>>, hop_ran |-> FALSE,
     first_round |-> <<>>, concept_docs |-> <<>>,
     filtered_docs |-> <<>>, reranked_docs |-> <<>>, compressed_before_hop |-> FALSE,
     generation_calls |-> 0, failure |-> None, compression_failed |-> {},
     concepts |-> <<>>, concept_searches |-> 0, unique_docs |-> <<>>]

\* an exception was raised in this stage; self.llm returned a text in this stage
Raised(stage) == [trace EXCEPT !.raised = @ \cup {stage}]

Answered(stage) == [trace EXCEPT !.answered = @ \cup {stage}]

\* a file of the index location: the run that wrote it last (0: no file) and
\* whether that write ran to its end
NoFile == [run |-> 0, whole |-> FALSE]

WrittenBy(r) == [run |-> r, whole |-> TRUE]

Runs == 1..MaxRuns

NotLoaded == [vectorstore |-> NoFile, metadata |-> NoFile, failed |-> {}, building |-> {},
              writing |-> {}]

\* no run of process_pdf has started, no query_pdf is under way
IndexFresh ==
    /\ storage_file = NoFile
    /\ vectorstore_dir = NoFile
    /\ metadata_file = NoFile
    /\ build_pc = [r \in Runs |-> "idle"]
    /\ query_pc = "idle"
    /\ loaded = NotLoaded

\* _semantic_chunking has not been called
ChunkFresh ==
    /\ nlp = FALSE
    /\ chunk = None
    /\ features = None
    /\ type_of_chunk = None
    /\ importance_of_chunk = None
    /\ chunk_pc = "idle"
    /\ analysed = <<>>

\* batch_query_pdf has not been called
BatchFresh ==
    /\ queries = <<>>
    /\ results = <<>>
    /\ batch_i = 1
    /\ batch_raised = {}

NoEntities == [monetary_amounts |-> <<>>, percentages |-> <<>>, dates |-> <<>>]

\* no extractor has been called
EntityFresh ==
    /\ span = <<>>
    /\ key_entities = NoEntities
    /\ key_info = NoEntities
    /\ extracted = {}

\* no get_analysis_status has answered yet
NoResponse == [code |-> 0]

\* no request has reached the analysis endpoints
TaskFresh ==
    /\ background_tasks_status = <<>>
    /\ frame = <<>>
    /\ running = 0
    /\ status_response = NoResponse

\* analyze_risks has not been called
AnalyzerFresh ==
    /\ prompts = <<>>
    /\ paragraphs = <<>>
    /\ ainvoke_raises = {}
    /\ prompt_i = 1
    /\ tasks = <<>>
    /\ analyzer_pc = "idle"
    /\ analysis = [raised |-> FALSE, results |-> <<>>]

ApiFresh ==
    /\ EntityFresh
    /\ TaskFresh
    /\ AnalyzerFresh

\* intelligent_qa has been called and has not run a statement yet
QaFresh ==
    /\ pc = "start"
    /\ processed_query = None
    /\ documents = <<>>
    /\ relevant_docs = <<>>
    /\ qa_prompt = None
    /\ answer = None
    /\ final_answer = None
    /\ confidence_score = None
    /\ citations = <<>>
    /\ explanation = None
    /\ result = None
    /\ compressed_docs = <<>>
    /\ key_concepts = <<>>
    /\ additional_docs = <<>>
    /\ trace = NoTrace

Init ==
    /\ config \in Configs
    /\ sentence_model \in BOOLEAN
    /\ ~config.use_reranking => sentence_model    \* read by the reranker alone
    /\ \E store \in Stores, request \in Requests :
        \* the long comparison is asked where _compress_context has work to do: the
        \* store holds the whole pool, compression is on and no reranker cuts the list
        /\ request.query = LongComparison
            => /\ Len(store) = Len(ChunkPool)
               /\ config.use_compression
               /\ ~config.use_reranking
        /\ heap = [i \in 1..Len(store) |-> store[i].doc]
        /\ cos_sim = [i \in 1..Len(store) |-> store[i].cos]
        /\ nstore = Len(store)
        /\ query = request.query
        /\ conversation_history = request.history
    /\ QaFresh
    /\ IndexFresh
    /\ ApiFresh
    /\ ChunkFresh
    /\ BatchFresh

\* what no statement of intelligent_qa writes: its inputs and the files
inputVars ==
    <<config, sentence_model, nstore, query, conversation_history, cos_sim, indexVars,
      chunkVars, batchVars, apiVars>>

(***************************************************************************)
(* intelligent_qa, statement by statement.                                 *)
(***************************************************************************)
Preprocess ==
    /\ pc = "start"
    /\ processed_query' = _preprocess_query(query, conversation_history)
    /\ pc' = "search"
    /\ UNCHANGED <<inputVars, heap, documents, relevant_docs, qa_prompt, answer,
                   final_answer, confidence_score, citations, explanation, result,
                   compressed_docs, key_concepts, additional_docs, trace>>

\* _advanced_retrieve's except branch: return []
RetrieveFailed(stage) ==
    /\ relevant_docs' = <<>>
    /\ documents' = <<>>
    /\ pc' = "hop"
    /\ trace' = [Raised(stage) EXCEPT !.retrieve_returned = TRUE, !.retrieved = <<>>]

\* vectorstore.similarity_search(query, k): the k nearest Documents; the docstore is
\* listed in the order of their distance to the processed query
SimilaritySearch(k) == [i \in 1..Min2(k, nstore) |-> i]

Search ==
    /\ pc = "search"
    /\ documents' = SimilaritySearch(config.retrieval_k)
    /\ pc' = "filter"
    /\ trace' = [trace EXCEPT !.candidates = documents']
    /\ UNCHANGED <<inputVars, heap, processed_query, relevant_docs, qa_prompt, answer,
                   final_answer, confidence_score, citations, explanation, result,
                   compressed_docs, key_concepts, additional_docs>>

\* the embedding call or the index raises
SearchRaises ==
    /\ pc = "search"
    /\ RetrieveFailed("search")
    /\ UNCHANGED <<inputVars, heap, processed_query, qa_prompt, answer,
                   final_answer, confidence_score, citations, explanation, result,
                   compressed_docs, key_concepts, additional_docs>>

KeywordFilter ==
    /\ pc = "filter"
    /\ ~KeywordFilterRaises(processed_query, documents)
    /\ LET out == _keyword_filter(processed_query, documents, heap)
       IN  heap' = out.heap /\ documents' = out.docs
    /\ pc' = "rerank"
    /\ UNCHANGED <<inputVars, processed_query, relevant_docs, qa_prompt, answer,
                   final_answer, confidence_score, citations, explanation, result,
                   compressed_docs, key_concepts, additional_docs, trace>>

KeywordFilterRaises_ ==
    /\ pc = "filter"
    /\ KeywordFilterRaises(processed_query, documents)
    /\ RetrieveFailed("keyword_filter")
    /\ UNCHANGED <<inputVars, heap, processed_query, qa_prompt, answer,
                   final_answer, confidence_score, citations, explanation, result,
                   compressed_docs, key_concepts, additional_docs>>

Rerank ==
    /\ pc = "rerank"
    /\ IF config.use_reranking /\ Len(documents) > config.rerank_top_k
       THEN LET out == _intelligent_reranking(sentence_model, cos_sim, documents, heap,
                                              config.rerank_top_k)
            IN  /\ heap' = out.heap
                /\ documents' = out.docs
                /\ trace' = [trace EXCEPT !.rerank_ran = TRUE, !.reranked = out.docs,
                                          !.filtered_docs = documents,
                                          !.reranked_docs = out.docs]
       ELSE /\ trace' = [trace EXCEPT !.filtered_docs = documents,
                                      !.reranked_docs = documents]
            /\ UNCHANGED <<heap, documents>>
    /\ pc' = "compress"
    /\ UNCHANGED <<inputVars, processed_query, relevant_docs, qa_prompt, answer,
                   final_answer, confidence_score, citations, explanation, result,
                   compressed_docs, key_concepts, additional_docs>>

\* _advanced_retrieve's return of the list docs
RetrieveReturns(docs) ==
    /\ relevant_docs' = docs
    /\ pc' = "hop"
    /\ trace' = [trace EXCEPT !.retrieve_returned = TRUE, !.retrieved = docs]

Compress ==
    /\ pc = "compress"
    /\ IF config.use_compression /\ Len(documents) > 3
       THEN /\ pc' = "compress_doc"
            /\ UNCHANGED <<relevant_docs, trace>>
       ELSE RetrieveReturns(documents)
    /\ compressed_docs' = <<>>
    /\ UNCHANGED <<inputVars, heap, processed_query, documents, qa_prompt, answer,
                   final_answer, confidence_score, citations, explanation, result,
                   key_concepts, additional_docs>>

\* one turn of _compress_context's loop: the model answers
CompressDoc ==
    /\ pc = "compress_doc"
    /\ Len(compressed_docs) < Len(documents)
    /\ LET doc == heap[documents[Len(compressed_docs) + 1]]
           compressed_content == LlmCompression(Take(doc.page_content, CompressionInput))
           compressed_doc ==
               [page_content |-> Strip(compressed_content),
                metadata |-> Put(Put(Put(doc.metadata, "compressed", TRUE),
                                     "original_length", Len(doc.page_content)),
                                 "compressed_length", Len(compressed_content))]
       IN  /\ heap' = Append(heap, compressed_doc)
           /\ compressed_docs' = Append(compressed_docs, Len(heap) + 1)
    /\ trace' = Answered("compression")
    /\ UNCHANGED <<inputVars, pc, processed_query, documents, relevant_docs, qa_prompt,
                   answer, final_answer, confidence_score, citations, explanation,
                   result, key_concepts, additional_docs>>

\* the except branch forgets the Document
KeptOnFailure_dropped(out, doc) == out

\* except Exception: compressed_docs.append(doc)
KeptOnFailure(out, doc) == Append(out, doc)

\* one turn of the loop: the model raises, the Document is kept as it is
CompressDocRaises ==
    /\ pc = "compress_doc"
    /\ Len(compressed_docs) < Len(documents)
    /\ compressed_docs' = KeptOnFailure(compressed_docs, documents[Len(compressed_docs) + 1])
    /\ trace' = [Raised("compression") EXCEPT
                    !.compression_failed = @ \cup {Len(compressed_docs) + 1}]
    /\ UNCHANGED <<inputVars, heap, pc, processed_query, documents, relevant_docs,
                   qa_prompt, answer, final_answer, confidence_score, citations,
                   explanation, result, key_concepts, additional_docs>>

CompressReturns ==
    /\ pc = "compress_doc"
    /\ Len(compressed_docs) = Len(documents)
    /\ RetrieveReturns(compressed_docs)
    /\ UNCHANGED <<inputVars, heap, processed_query, documents, qa_prompt, answer,
                   final_answer, confidence_score, citations, explanation, result,
                   compressed_docs, key_concepts, additional_docs>>

MultiHopCheck ==
    /\ pc = "hop"
    /\ IF _requires_multi_hop_reasoning(processed_query)
       THEN /\ key_concepts' = TakeSeq(_extract_key_concepts_from_docs(relevant_docs, heap), 3)
            /\ pc' = "hop_search"
            /\ trace' = [trace EXCEPT
                            !.first_round = relevant_docs,
                            !.compressed_before_hop = compressed_docs # <<>>,
                            !.concepts = _extract_key_concepts_from_docs(relevant_docs, heap)]
       ELSE /\ key_concepts' = <<>>
            /\ pc' = "prompt"
            /\ trace' = [trace EXCEPT !.first_round = relevant_docs]
    /\ additional_docs' = <<>>
    /\ UNCHANGED <<inputVars, heap, processed_query, documents, relevant_docs, qa_prompt,
                   answer, final_answer, confidence_score, citations, explanation,
                   result, compressed_docs>>

\* similarity_search(f"{concept} {query}", k=3): another query, so another order of
\* the docstore; the orders tried are the rotations of the first one
ConceptSearchResult(rotation) ==
    [i \in 1..Min2(3, nstore) |-> ((rotation + i - 1) % nstore) + 1]

ConceptSearch ==
    /\ pc = "hop_search"
    /\ key_concepts # <<>>
    /\ \E rotation \in 0..(nstore - 1) :
        additional_docs' = additional_docs \o ConceptSearchResult(rotation)
    /\ key_concepts' = Tail(key_concepts)
    /\ trace' = [trace EXCEPT !.concept_searches = @ + 1]
    /\ UNCHANGED <<inputVars, heap, pc, processed_query, documents, relevant_docs,
                   qa_prompt, answer, final_answer, confidence_score, citations,
                   explanation, result, compressed_docs>>

\* the search of one concept raises: logged, the concept is skipped
ConceptSearchRaises ==
    /\ pc = "hop_search"
    /\ key_concepts # <<>>
    /\ key_concepts' = Tail(key_concepts)
    /\ trace' = [Raised("multi_hop") EXCEPT !.concept_searches = @ + 1]
    /\ UNCHANGED <<inputVars, heap, pc, processed_query, documents, relevant_docs,
                   qa_prompt, answer, final_answer, confidence_score, citations,
                   explanation, result, compressed_docs, additional_docs>>

MultiHopReturns ==
    /\ pc = "hop_search"
    /\ key_concepts = <<>>
    /\ relevant_docs' = MergeHops(relevant_docs, additional_docs, heap, config.rerank_top_k)
    /\ trace' = [trace EXCEPT
                    !.hop_ran = TRUE,
                    !.concept_docs = additional_docs,
                    !.unique_docs = _deduplicate_documents(relevant_docs \o additional_docs,
                                                           heap)]
    /\ pc' = "prompt"
    /\ UNCHANGED <<inputVars, heap, processed_query, documents, qa_prompt, answer,
                   final_answer, confidence_score, citations, explanation, result,
                   compressed_docs, key_concepts, additional_docs>>

\* _generate_dynamic_prompt: the template depends on the query type alone
Prompt ==
    /\ pc = "prompt"
    /\ qa_prompt' = _classify_query_type(processed_query)
    /\ pc' = "generate"
    /\ UNCHANGED <<inputVars, heap, processed_query, documents, relevant_docs, answer,
                   final_answer, confidence_score, citations, explanation, result,
                   compressed_docs, key_concepts, additional_docs, trace>>

Generate ==
    /\ pc = "generate"
    /\ \E text \in LlmAnswers : answer' = Strip(text)
    /\ trace' = [Answered("generation") EXCEPT !.generation_calls = @ + 1]
    /\ pc' = "post"
    /\ UNCHANGED <<inputVars, heap, processed_query, documents, relevant_docs, qa_prompt,
                   final_answer, confidence_score, citations, explanation, result,
                   compressed_docs, key_concepts, additional_docs>>

\* what makes chain.invoke raise: a rate limit or a timeout, a request the model
\* rejects
ModelCallFailures == {"transient", "malformed_input"}

\* _generate_answer's except branch
GenerateRaises ==
    /\ pc = "generate"
    /\ answer' = GenerationFailedAnswer
    /\ \E kind \in ModelCallFailures :
        trace' = [Raised("generation") EXCEPT !.generation_calls = @ + 1,
                                              !.failure = kind]
    /\ pc' = "post"
    /\ UNCHANGED <<inputVars, heap, processed_query, documents, relevant_docs, qa_prompt,
                   final_answer, confidence_score, citations, explanation, result,
                   compressed_docs, key_concepts, additional_docs>>

PostProcess ==
    /\ pc = "post"
    /\ final_answer' = _post_process_answer(answer, processed_query, relevant_docs, heap)
    /\ pc' = "confidence"
    /\ UNCHANGED <<inputVars, heap, processed_query, documents, relevant_docs, qa_prompt,
                   answer, confidence_score, citations, explanation, result,
                   compressed_docs, key_concepts, additional_docs, trace>>

Confidence ==
    /\ pc = "confidence"
    /\ ~ConfidenceRaises(processed_query)
    /\ confidence_score' =
           _calculate_confidence(processed_query, relevant_docs, final_answer, heap)
    /\ pc' = "citations"
    /\ UNCHANGED <<inputVars, heap, processed_query, documents, relevant_docs, qa_prompt,
                   answer, final_answer, citations, explanation, result,
                   compressed_docs, key_concepts, additional_docs, trace>>

\* the division by len(query_terms) raises; intelligent_qa's except branch returns
ConfidenceRaises_ ==
    /\ pc = "confidence"
    /\ ConfidenceRaises(processed_query)
    /\ result' = QaError(query, ZeroDivisionError)
    /\ trace' = Raised("confidence")
    /\ pc' = "done"
    /\ UNCHANGED <<inputVars, heap, processed_query, documents, relevant_docs, qa_prompt,
                   answer, final_answer, confidence_score, citations, explanation,
                   compressed_docs, key_concepts, additional_docs>>

Citations ==
    /\ pc = "citations"
    /\ citations' = _generate_citations(relevant_docs, heap)
    /\ pc' = "explain"
    /\ UNCHANGED <<inputVars, heap, processed_query, documents, relevant_docs, qa_prompt,
                   answer, final_answer, confidence_score, explanation, result,
                   compressed_docs, key_concepts, additional_docs, trace>>

Explain ==
    /\ pc = "explain"
    /\ explanation' = Strip(LlmExplanation)
    /\ trace' = Answered("explanation")
    /\ pc' = "return"
    /\ UNCHANGED <<inputVars, heap, processed_query, documents, relevant_docs, qa_prompt,
                   answer, final_answer, confidence_score, citations, result,
                   compressed_docs, key_concepts, additional_docs>>

\* _generate_explanation's except branch
ExplainRaises ==
    /\ pc = "explain"
    /\ explanation' = ExplanationFallback(relevant_docs)
    /\ trace' = Raised("explanation")
    /\ pc' = "return"
    /\ UNCHANGED <<inputVars, heap, processed_query, documents, relevant_docs, qa_prompt,
                   answer, final_answer, confidence_score, citations, result,
                   compressed_docs, key_concepts, additional_docs>>

Return ==
    /\ pc = "return"
    /\ result' = QaResult(query, final_answer, confidence_score, citations, explanation,
                          relevant_docs, heap)
    /\ pc' = "done"
    /\ UNCHANGED <<inputVars, heap, processed_query, documents, relevant_docs, qa_prompt,
                   answer, final_answer, confidence_score, citations, explanation,
                   compressed_docs, key_concepts, additional_docs, trace>>

Next ==
    \/ Preprocess
    \/ Search
    \/ SearchRaises
    \/ KeywordFilter
    \/ KeywordFilterRaises_
    \/ Rerank
    \/ Compress
    \/ CompressDoc
    \/ CompressDocRaises
    \/ CompressReturns
    \/ MultiHopCheck
    \/ ConceptSearch
    \/ ConceptSearchRaises
    \/ MultiHopReturns
    \/ Prompt
    \/ Generate
    \/ GenerateRaises
    \/ PostProcess
    \/ Confidence
    \/ ConfidenceRaises_
    \/ Citations
    \/ Explain
    \/ ExplainRaises
    \/ Return

Spec == Init /\ [][Next]_vars

(***************************************************************************)
(* PDFProcessorService.process_pdf and query_pdf on one document id: the   *)
(* runs of process_pdf and one caller of query_pdf, interleaved at the     *)
(* awaits.  The services hold no lock.                                     *)
(***************************************************************************)
IndexInit ==
    /\ config = [retrieval_k |-> MaxStore, rerank_top_k |-> MaxTopK,
                 use_reranking |-> TRUE, use_compression |-> TRUE]
    /\ sentence_model = TRUE
    /\ heap = <<ChunkPool[1].doc>>
    /\ cos_sim = <<ChunkPool[1].cos>>
    /\ nstore = 1
    /\ query = "alpha"
    /\ conversation_history = <<>>
    /\ QaFresh
    /\ IndexFresh
    /\ ApiFresh
    /\ ChunkFresh
    /\ BatchFresh

At(r, where) == build_pc[r] = where

Goto(r, where) == build_pc' = [build_pc EXCEPT ![r] = where]

\* process_pdf is called: the PDF is loaded and split
ProcessPdf(r) ==
    /\ At(r, "idle")
    /\ Goto(r, "json")
    /\ UNCHANGED <<qaVars, apiVars, chunkVars, batchVars, storage_file, vectorstore_dir, metadata_file, query_pc, loaded>>

\* the file is opened for writing before the PDF is read
LoaderRaises_after_open(r) ==
    /\ At(r, "idle")
    /\ storage_file' = [run |-> r, whole |-> FALSE]
    /\ Goto(r, "unreadable")
    /\ UNCHANGED <<qaVars, apiVars, chunkVars, batchVars, vectorstore_dir, metadata_file, query_pc, loaded>>

\* loader.load raises (no file, no PDF): process_pdf logs and re-raises
LoaderRaises(r) ==
    /\ At(r, "idle")
    /\ Goto(r, "unreadable")
    /\ UNCHANGED <<qaVars, apiVars, chunkVars, batchVars, storage_file, vectorstore_dir, metadata_file, query_pc, loaded>>

\* the processed paragraphs are written to {document_id}.json
WriteJson(r) ==
    /\ At(r, "json")
    /\ storage_file' = WrittenBy(r)
    /\ Goto(r, "embed")
    /\ UNCHANGED <<qaVars, apiVars, chunkVars, batchVars, vectorstore_dir, metadata_file, query_pc, loaded>>

\* build_enhanced_vectorstore: FAISS.from_texts in a thread
FromTexts(r) ==
    /\ At(r, "embed")
    /\ Goto(r, "save")
    /\ UNCHANGED <<qaVars, apiVars, chunkVars, batchVars, storage_file, vectorstore_dir, metadata_file, query_pc, loaded>>

\* the embedding call raises: build_enhanced_vectorstore and process_pdf re-raise
FromTextsRaises(r) ==
    /\ At(r, "embed")
    /\ Goto(r, "failed")
    /\ UNCHANGED <<qaVars, apiVars, chunkVars, batchVars, storage_file, vectorstore_dir, metadata_file, query_pc, loaded>>

\* vectorstore.save_local(save_path) in a thread
SaveLocal(r) ==
    /\ At(r, "save")
    /\ vectorstore_dir' = WrittenBy(r)
    /\ Goto(r, "metadata")
    /\ UNCHANGED <<qaVars, apiVars, chunkVars, batchVars, storage_file, metadata_file, query_pc, loaded>>

\* json.dump(metadata_info, f) into open(metadata_path, 'w')
WriteMetadata(r) ==
    /\ At(r, "metadata")
    /\ metadata_file' = WrittenBy(r)
    /\ Goto(r, "done")
    /\ UNCHANGED <<qaVars, apiVars, chunkVars, batchVars, storage_file, vectorstore_dir, query_pc, loaded>>

\* open raises and the file is as it was, or json.dump raises into the file
\* that open has truncated
WriteMetadataRaises(r) ==
    /\ At(r, "metadata")
    /\ metadata_file' \in {metadata_file, [run |-> r, whole |-> FALSE]}
    /\ Goto(r, "failed")
    /\ UNCHANGED <<qaVars, apiVars, chunkVars, batchVars, storage_file, vectorstore_dir, query_pc, loaded>>

\* query_pdf goes on to load_local without looking for the index
QueryPdf_unchecked ==
    /\ query_pc = "idle"
    /\ query_pc' = "load"
    /\ loaded' = [NotLoaded EXCEPT !.failed = {r \in Runs : At(r, "failed") \/ At(r, "unreadable")}]
    /\ UNCHANGED <<qaVars, apiVars, chunkVars, batchVars, storage_file, vectorstore_dir, metadata_file, build_pc>>

\* query_pdf is called: os.path.exists(vectorstore_path)
QueryPdf ==
    /\ query_pc = "idle"
    /\ IF vectorstore_dir = NoFile
       THEN query_pc' = "raised"     \* FileNotFoundError
       ELSE query_pc' = "load"
    /\ loaded' = [NotLoaded EXCEPT !.failed = {r \in Runs : At(r, "failed") \/ At(r, "unreadable")}]
    /\ UNCHANGED <<qaVars, apiVars, chunkVars, batchVars, storage_file, vectorstore_dir, metadata_file, build_pc>>

\* FAISS.load_local(vectorstore_path, ...) in a thread
LoadLocal ==
    /\ query_pc = "load"
    /\ loaded' = [loaded EXCEPT
                    !.vectorstore = vectorstore_dir,
                    !.metadata = metadata_file,
                    !.building = {r \in Runs : build_pc[r] \notin {"idle", "done", "failed", "unreadable"}},
                    !.writing = {r \in Runs : At(r, "metadata")}]
    /\ query_pc' = "qa"
    /\ UNCHANGED <<qaVars, apiVars, chunkVars, batchVars, storage_file, vectorstore_dir, metadata_file, build_pc>>

\* intelligent_qa on the loaded vectorstore returns its dict
IntelligentQa ==
    /\ query_pc = "qa"
    /\ query_pc' = "returned"
    /\ UNCHANGED <<qaVars, apiVars, chunkVars, batchVars, storage_file, vectorstore_dir, metadata_file, build_pc, loaded>>

\* the caller asks again
QueryAgain ==
    /\ query_pc \in {"returned", "raised"}
    /\ query_pc' = "idle"
    /\ loaded' = NotLoaded
    /\ UNCHANGED <<qaVars, apiVars, chunkVars, batchVars, storage_file, vectorstore_dir, metadata_file, build_pc>>

IndexNext ==
    \/ \E r \in Runs : ProcessPdf(r)
    \/ \E r \in Runs : LoaderRaises(r)
    \/ \E r \in Runs : WriteJson(r)
    \/ \E r \in Runs : FromTexts(r)
    \/ \E r \in Runs : FromTextsRaises(r)
    \/ \E r \in Runs : SaveLocal(r)
    \/ \E r \in Runs : WriteMetadata(r)
    \/ \E r \in Runs : WriteMetadataRaises(r)
    \/ QueryPdf
    \/ LoadLocal
    \/ IntelligentQa
    \/ QueryAgain

SpecIndex == IndexInit /\ [][IndexNext]_vars

(***************************************************************************)
(* _semantic_chunking: the semantic features, the type and the importance  *)
(* score of each chunk.                                                    *)
(***************************************************************************)
\* one features dict shared by all calls
NewFeatures_shared ==
    IF \A text \in DOMAIN analysed : analysed[text] = {}
    THEN [entities |-> <<>>, risk_signals |-> 0, financial_terms |-> 0,
          regulatory_mentions |-> 0, sentiment_indicators |-> <<>>]
    ELSE features

\* the features dict a call of _analyze_chunk_semantics starts from
NewFeatures ==
    [entities |-> <<>>, risk_signals |-> 0, financial_terms |-> 0,
     regulatory_mentions |-> 0, sentiment_indicators |-> <<>>]

\* the chunks: the text, and what self.nlp makes of the text (doc.ents as labels,
\* or an exception)
ChunkInput(text, ents, raises) == [text |-> text, ents |-> ents, nlp_raises |-> raises]

ChunkInputs ==
    { ChunkInput("item 1a audit balance sheet", <<"ORG", "DATE">>, FALSE),
      ChunkInput("the audit of the balance sheet", <<"ORG">>, FALSE),
      ChunkInput("sox audit", <<>>, FALSE),
      ChunkInput("md&a outlook Risk", <<"GPE", "MONEY">>, FALSE),
      ChunkInput("sec rule", <<"LAW">>, TRUE),
      ChunkInput("risk threat loss growth", <<>>, FALSE),
      ChunkInput("leverage ratio capital ratio ROE", <<"PERCENT">>, FALSE),
      ChunkInput("one two three four five six seven", <<>>, FALSE),
      ChunkInput("risk-threat-loss sec gross margin net margin", <<"ORG">>, FALSE),
      ChunkInput("plain", <<"PERSON", "ORG", "CARDINAL">>, FALSE) }

\* self.nlp(chunk).ents
SpacyDoc(text) == CHOOSE c \in ChunkInputs : c.text = text

EntityLabels == {"ORG", "MONEY", "PERCENT", "DATE", "LAW", "PERSON"}

NegativeIndicators ==
    <<"risk", "loss", "decline", "decrease", "negative", "adverse", "concern", "issue",
      "problem", "threat">>

PositiveIndicators ==
    <<"improve", "increase", "growth", "positive", "strong", "effective", "successful",
      "opportunity">>

\* how many of the terms occur in the text
CountIn(terms, text) == Cardinality({i \in DOMAIN terms : IsSubstr(terms[i], text)})

\* the terms lowered one by one
LowerAll(terms) == [i \in DOMAIN terms |-> Lower(terms[i])]

\* the pairs (polarity, indicator) of the indicators that occur in the text
Sentiments(polarity, indicators, text) ==
    LET found == SelectSeq(indicators, LAMBDA w : IsSubstr(w, text))
    IN  [i \in DOMAIN found |-> <<polarity, found[i]>>]

_analyze_chunk_semantics(text) ==
    LET start == NewFeatures
        chunk_lower == Lower(text)
        entities ==
            IF nlp /\ ~SpacyDoc(text).nlp_raises
            THEN SelectSeq(SpacyDoc(text).ents, LAMBDA label : label \in EntityLabels)
            ELSE start.entities
    IN  [entities |-> entities,
         risk_signals |-> start.risk_signals
                            + CountIn(KeywordsOf("risk_indicators"), chunk_lower),
         financial_terms |-> start.financial_terms
                            + CountIn(KeywordsOf("financial_metrics"), chunk_lower),
         regulatory_mentions |-> start.regulatory_mentions
                            + CountIn(LowerAll(KeywordsOf("regulations")), chunk_lower),
         sentiment_indicators |-> start.sentiment_indicators
                            \o Sentiments("negative", NegativeIndicators, chunk_lower)
                            \o Sentiments("positive", PositiveIndicators, chunk_lower)]

RiskDisclosureWords == <<"risk factor", "item 1a", "risk management", "risk assessment">>

FinancialDataWords ==
    <<"financial statement", "balance sheet", "income statement", "cash flow">>

ComplianceWords == <<"internal control", "sox", "compliance", "audit">>

ManagementAnalysisWords == <<"management discussion", "md&a", "outlook", "forward-looking">>

_classify_chunk_type(text, feats) ==
    LET chunk_lower == Lower(text)
    IN  IF AnyIn(RiskDisclosureWords, chunk_lower) THEN "risk_disclosure"
        ELSE IF AnyIn(FinancialDataWords, chunk_lower) THEN "financial_data"
        ELSE IF AnyIn(ComplianceWords, chunk_lower) THEN "compliance"
        ELSE IF AnyIn(ManagementAnalysisWords, chunk_lower) THEN "management_analysis"
        ELSE IF feats.regulatory_mentions > 0 THEN "regulatory"
        ELSE IF feats.risk_signals > 2 THEN "risk_assessment"
        ELSE IF feats.financial_terms > 1 THEN "financial_metrics"
        ELSE "general"

\* the score of the word count

(***************************************************************************)
(* Python's float (IEEE 754 binary64) for the sums of the importance       *)
(* score: a float below 4 is the whole number of units of 2^-56 it holds,  *)
(* written hi * 2^28 + lo.  Every float from 2^-4 on is a whole number of  *)
(* these units.                                                            *)
(***************************************************************************)
F64(hi, lo) == [hi |-> hi, lo |-> lo]

\* the float literals 0.1, 0.2, 0.3, 1.0
F64Tenth == F64(26843545, 161061274)

F64Fifth == F64(53687091, 53687092)

F64ThreeTenths == F64(80530636, 214748364)

F64One == F64(2^28, 0)

F64Zero == F64(0, 0)

\* n / 10 for the ints 0..13 and n / 5 for the ints 0..11, correctly rounded
F64Over10 ==
    << F64Tenth, F64Fifth, F64ThreeTenths, F64(107374182, 107374184), F64(134217728, 0),
       F64(161061273, 161061272), F64(187904819, 53687088), F64(214748364, 214748368),
       F64(241591910, 107374184), F64One, F64(295279001, 161061280),
       F64(322122547, 53687088), F64(348966092, 214748368) >>

F64Over5 ==
    << F64Fifth, F64(107374182, 107374184), F64(161061273, 161061272),
       F64(214748364, 214748368), F64One, F64(322122547, 53687088),
       F64(375809638, 107374176), F64(429496729, 161061280), F64(483183820, 214748368),
       F64(536870912, 0), F64(590558003, 53687104) >>

IntOver10(n) == IF n = 0 THEN F64Zero ELSE F64Over10[n]

IntOver5(n) == IF n = 0 THEN F64Zero ELSE F64Over5[n]

F64Lt(a, b) == a.hi < b.hi \/ (a.hi = b.hi /\ a.lo < b.lo)

\* min(a, b)
F64Min(a, b) == IF F64Lt(b, a) THEN b ELSE a

\* the units of 2^-56 in one unit of the last place of a float of this size
UnitsInLastPlace(hi) ==
    IF hi >= 2^29 THEN 32
    ELSE IF hi >= 2^28 THEN 16
    ELSE IF hi >= 2^27 THEN 8
    ELSE IF hi >= 2^26 THEN 4
    ELSE IF hi >= 2^25 THEN 2
    ELSE 1

\* a + b: the exact sum, rounded to the nearest float, a tie to the even one
F64Add(a, b) ==
    LET lo == (a.lo + b.lo) % 2^28
        hi == a.hi + b.hi + ((a.lo + b.lo) \div 2^28)
        ulp == UnitsInLastPlace(hi)
        rest == lo % ulp
        down == lo - rest
        up == IF 2 * rest > ulp THEN TRUE
              ELSE IF 2 * rest < ulp THEN FALSE
              ELSE (down \div ulp) % 2 = 1
        rounded == IF up THEN down + ulp ELSE down
    IN  F64(hi + (rounded \div 2^28), rounded % 2^28)

\* the length band's part of the score
LengthBand(word_count) ==
    IF MediumWords <= word_count /\ word_count <= LongWords THEN F64Fifth
    ELSE IF word_count > LongWords THEN F64Tenth
    ELSE F64Zero

_calculate_importance_score(text, feats) ==
    LET score ==
            F64Add(F64Add(F64Add(F64Add(F64Add(F64Zero, LengthBand(Len(Split(text)))),
                                        F64Min(IntOver10(feats.risk_signals),
                                               F64ThreeTenths)),
                                 F64Min(IntOver10(feats.financial_terms), F64Fifth)),
                          F64Min(IntOver5(feats.regulatory_mentions), F64Fifth)),
                   F64Min(IntOver10(Len(feats.entities)), F64Tenth))
    IN  F64Min(score, F64One)

ChunkInit ==
    /\ config = [retrieval_k |-> MaxStore, rerank_top_k |-> MaxTopK,
                 use_reranking |-> TRUE, use_compression |-> TRUE]
    /\ sentence_model = TRUE
    /\ heap = <<ChunkPool[1].doc>>
    /\ cos_sim = <<ChunkPool[1].cos>>
    /\ nstore = 1
    /\ query = "alpha"
    /\ conversation_history = <<>>
    /\ QaFresh
    /\ IndexFresh
    /\ ApiFresh
    /\ BatchFresh
    /\ nlp \in BOOLEAN
    /\ chunk = None
    /\ features = None
    /\ type_of_chunk = None
    /\ importance_of_chunk = None
    /\ chunk_pc = "idle"
    /\ analysed = [c \in {i.text : i \in ChunkInputs} |-> {}]

\* one turn of the loop begins: semantic_features
AnalyzeChunkSemantics ==
    /\ chunk_pc = "idle"
    /\ \E c \in ChunkInputs :
        /\ chunk' = c.text
        /\ features' = _analyze_chunk_semantics(c.text)
    /\ chunk_pc' = "classify"
    /\ UNCHANGED <<qaVars, apiVars, indexVars, batchVars, nlp, type_of_chunk, importance_of_chunk, analysed>>

ClassifyChunkType ==
    /\ chunk_pc = "classify"
    /\ type_of_chunk' = _classify_chunk_type(chunk, features)
    /\ chunk_pc' = "importance"
    /\ UNCHANGED <<qaVars, apiVars, indexVars, batchVars, nlp, chunk, features, importance_of_chunk, analysed>>

CalculateImportanceScore ==
    /\ chunk_pc = "importance"
    /\ importance_of_chunk' = _calculate_importance_score(chunk, features)
    /\ chunk_pc' = "append"
    /\ UNCHANGED <<qaVars, apiVars, indexVars, batchVars, nlp, chunk, features, type_of_chunk, analysed>>

\* enhanced_chunks.append(enhanced_chunk): the turn ends, the features dict lives on
\* in the enhanced chunk
AppendEnhancedChunk ==
    /\ chunk_pc = "append"
    /\ analysed' = [analysed EXCEPT ![chunk] =
                       @ \cup {[chunk_type |-> type_of_chunk,
                                importance_score |-> importance_of_chunk,
                                semantic_features |-> features]}]
    /\ chunk' = None
    /\ type_of_chunk' = None
    /\ importance_of_chunk' = None
    /\ chunk_pc' = "idle"
    /\ UNCHANGED <<qaVars, apiVars, indexVars, batchVars, nlp, features>>

ChunkNext ==
    \/ AnalyzeChunkSemantics
    \/ ClassifyChunkType
    \/ CalculateImportanceScore
    \/ AppendEnhancedChunk

SpecChunk == ChunkInit /\ [][ChunkNext]_vars

(***************************************************************************)
(* The claims about intelligent_qa, checked under Spec.                    *)
(***************************************************************************)
(* PDFProcessorService.batch_query_pdf on one document id, while the runs  *)
(* of process_pdf go on: the loop calls query_pdf for one query after the  *)
(* other and awaits each call.                                             *)
(***************************************************************************)
MaxBatch == 3

Batches == {<<"alpha">>, <<"alpha", "risk">>, <<"risk", "alpha", "risk">>}

BatchInit ==
    /\ config = [retrieval_k |-> MaxStore, rerank_top_k |-> MaxTopK,
                 use_reranking |-> TRUE, use_compression |-> TRUE]
    /\ sentence_model = TRUE
    /\ heap = <<ChunkPool[1].doc>>
    /\ cos_sim = <<ChunkPool[1].cos>>
    /\ nstore = 1
    /\ query = "alpha"
    /\ conversation_history = <<>>
    /\ QaFresh
    /\ IndexFresh
    /\ ApiFresh
    /\ ChunkFresh
    /\ queries \in {b \in Batches : Len(b) <= MaxBatch}
    /\ results = <<>>
    /\ batch_i = 1
    /\ batch_raised = {}

DocumentId == "doc"

\* what query_pdf returns: intelligent_qa's dict under its query, with the two keys
\* query_pdf adds
QueryPdfResult(q) ==
    [query |-> q, document_id |-> DocumentId,
     vectorstore_path |-> DocumentId \o "_vectorstore"]

FileNotFoundError == "no vectorstore"

\* the except branch of the loop: the entry of the query that failed
AppendFailure_skipped(rs, q, e) == rs

AppendFailure(rs, q, e) ==
    Append(rs, [query |-> q, error |-> e, answer |-> "query failed"])

\* for query in queries: await self.query_pdf(document_id, query, vectorstore_path)
BatchQueryPdf ==
    /\ batch_i <= Len(queries)
    /\ QueryPdf

\* results.append(result)
BatchAppendResult ==
    /\ query_pc = "returned"
    /\ results' = Append(results, QueryPdfResult(queries[batch_i]))
    /\ batch_i' = batch_i + 1
    /\ query_pc' = "idle"
    /\ loaded' = NotLoaded
    /\ UNCHANGED <<qaVars, apiVars, chunkVars, storage_file, vectorstore_dir, metadata_file,
                   build_pc, queries, batch_raised>>

\* except Exception as e: the failure entry is appended, the loop goes on
BatchAppendFailure ==
    /\ query_pc = "raised"
    /\ results' = AppendFailure(results, queries[batch_i], FileNotFoundError)
    /\ batch_raised' = batch_raised \cup {batch_i}
    /\ batch_i' = batch_i + 1
    /\ query_pc' = "idle"
    /\ loaded' = NotLoaded
    /\ UNCHANGED <<qaVars, apiVars, chunkVars, storage_file, vectorstore_dir, metadata_file,
                   build_pc, queries>>

BatchNext ==
    \/ \E r \in Runs : ProcessPdf(r)
    \/ \E r \in Runs : LoaderRaises(r)
    \/ \E r \in Runs : LoaderRaises(r)
    \/ \E r \in Runs : WriteJson(r)
    \/ \E r \in Runs : FromTexts(r)
    \/ \E r \in Runs : FromTextsRaises(r)
    \/ \E r \in Runs : SaveLocal(r)
    \/ \E r \in Runs : WriteMetadata(r)
    \/ \E r \in Runs : WriteMetadataRaises(r)
    \/ BatchQueryPdf
    \/ LoadLocal
    \/ IntelligentQa
    \/ BatchAppendResult
    \/ BatchAppendFailure

SpecBatch == BatchInit /\ [][BatchNext]_vars

(***************************************************************************)
Returned == pc = "done"

\* C1: when every call of the language model fails and the index returns at
\* least one chunk, the returned result has confidence_score 0 and an answer
\* that is empty or the fixed placeholder.
C1_NoModelNoConfidence ==
    (Returned /\ trace.answered = {} /\ "generation" \in trace.raised
        /\ Len(relevant_docs) >= 1)
    => /\ result.confidence_score = Zero
       /\ result.answer \in {"", GenerationFailedAnswer}

\* C2: the confidence_score of every returned result lies in [0, 1].
C2_ConfidenceInUnitInterval ==
    Returned => /\ RLe(Zero, result.confidence_score)
                /\ RLe(result.confidence_score, One)

\* C3: when a query-time stage raised, the returned result is the error result:
\* confidence 0, no citations, documents_retrieved 0.
C3_RaisedGivesErrorResult ==
    (Returned /\ trace.raised # {})
    => /\ result.retrieval_strategy = "error"
       /\ result.confidence_score = Zero
       /\ result.citations = <<>>
       /\ result.documents_retrieved = 0

\* C7: the list _advanced_retrieve returns holds no two candidates with the
\* same content signature.
C7_RetrievedSignaturesDistinct ==
    trace.retrieve_returned
    => \A i, j \in DOMAIN trace.retrieved :
          i # j => ContentSignature(heap, trace.retrieved[i])
                   # ContentSignature(heap, trace.retrieved[j])

RerankScoreOf(r) == Meta(heap, r)["rerank_score"]

\* C8: the list _intelligent_reranking returns is in non-increasing order of
\* rerank_score, and every Document of it has a rerank_score.
C8_RerankedDescending ==
    trace.rerank_ran
    => /\ \A i \in DOMAIN trace.reranked :
            "rerank_score" \in DOMAIN Meta(heap, trace.reranked[i])
       /\ \A i, j \in DOMAIN trace.reranked :
            i < j => RLe(RerankScoreOf(trace.reranked[j]), RerankScoreOf(trace.reranked[i]))

\* the reranker returned two Documents of different scores, the higher one
\* from the later place of the docstore
C8_Witness ==
    /\ trace.rerank_ran
    /\ Len(trace.reranked) >= 2
    /\ trace.reranked[1] > trace.reranked[2]
    /\ RLt(RerankScoreOf(trace.reranked[2]), RerankScoreOf(trace.reranked[1]))

\* the first round's list followed by every concept search's list
HopUnion == trace.first_round \o trace.concept_docs

\* the places of HopUnion whose signature no earlier place has
FirstOccurrences ==
    {i \in DOMAIN HopUnion :
        \A j \in 1..(i - 1) :
            ContentSignature(heap, HopUnion[j]) # ContentSignature(heap, HopUnion[i])}

NthFirstOccurrence(n) ==
    CHOOSE i \in FirstOccurrences : Cardinality({j \in FirstOccurrences : j <= i}) = n

AfterHop ==
    pc \in {"prompt", "generate", "post", "confidence", "citations", "explain",
            "return", "done"}

\* C9 (as the code has it): for a query that holds 'compare' multi-hop retrieval
\* runs, and the list retained after it is the first rerank_top_k entries of
\* the union of the first round's list and the concept searches' lists, each
\* signature kept at its first occurrence.
C9_HopKeepsFirstTopK ==
    AfterHop
    => /\ IsSubstr("compare", Lower(query)) => trace.hop_ran
       /\ trace.hop_ran
            => /\ Len(relevant_docs)
                    = Min2(config.rerank_top_k, Cardinality(FirstOccurrences))
               /\ \A n \in DOMAIN relevant_docs :
                    relevant_docs[n] = HopUnion[NthFirstOccurrence(n)]

\* multi-hop ran for a 'compare' query, a concept search added a signature the
\* first round had not, a repeated signature was dropped and the cut applied
C9_Witness ==
    /\ AfterHop
    /\ IsSubstr("compare", Lower(query))
    /\ trace.hop_ran
    /\ trace.first_round # <<>>
    /\ \E i \in FirstOccurrences : i > Len(trace.first_round)
    /\ Cardinality(FirstOccurrences) < Len(HopUnion)
    /\ Cardinality(FirstOccurrences) > config.rerank_top_k

\* C9 as stated: the retained set is the whole deduplicated union.
C9_HopKeepsWholeUnion ==
    (AfterHop /\ trace.hop_ran)
    => {relevant_docs[n] : n \in DOMAIN relevant_docs}
       = {HopUnion[i] : i \in FirstOccurrences}

(***************************************************************************)
(* The claims about the index files, checked under SpecIndex.              *)
(***************************************************************************)
QueryHasLoaded == query_pc \in {"qa", "returned"}

\* C4: a query issued after a run of process_pdf failed, with no run under way,
\* loads a whole index: the vector index and the metadata side-table it meets
\* were written to their end by the same run.
C4_FailedBuildLeavesWholeIndex ==
    (QueryHasLoaded /\ loaded.failed # {} /\ loaded.building = {})
    => /\ loaded.metadata.whole
       /\ loaded.metadata.run = loaded.vectorstore.run

\* C5: query_pdf never loads the index while a run of process_pdf is between
\* its write of the vector index and its write of the metadata side-table.
C5_NoLoadDuringBuild == QueryHasLoaded => loaded.writing = {}

\* C6: when all runs of process_pdf for the document have finished, the vector
\* index and the metadata side-table are those of the same run.
C6_BuildsSerialized ==
    (\A r \in Runs : At(r, "done")) => vectorstore_dir.run = metadata_file.run

(***************************************************************************)
(* The claims about the chunk analysis, checked under SpecChunk.           *)
(***************************************************************************)
\* the type by the priority risk_disclosure, compliance, financial_data,
\* management_analysis, regulatory, risk_assessment, financial_metrics, general
TypeByStatedPriority(text, feats) ==
    LET chunk_lower == Lower(text)
    IN  IF AnyIn(RiskDisclosureWords, chunk_lower) THEN "risk_disclosure"
        ELSE IF AnyIn(ComplianceWords, chunk_lower) THEN "compliance"
        ELSE IF AnyIn(FinancialDataWords, chunk_lower) THEN "financial_data"
        ELSE IF AnyIn(ManagementAnalysisWords, chunk_lower) THEN "management_analysis"
        ELSE IF feats.regulatory_mentions > 0 THEN "regulatory"
        ELSE IF feats.risk_signals > 2 THEN "risk_assessment"
        ELSE IF feats.financial_terms > 1 THEN "financial_metrics"
        ELSE "general"

\* C11: the type of a chunk is the first match in the priority risk_disclosure,
\* compliance, financial_data, management_analysis, regulatory, risk_assessment,
\* financial_metrics, general; a chunk of the compliance and of the
\* financial_data words (and not of risk_disclosure) is compliance.
C11_TypeByStatedPriority ==
    chunk_pc = "importance" => type_of_chunk = TypeByStatedPriority(chunk, features)

\* the types and importance scores computed for a chunk text so far
ScoresOf(text) ==
    {[chunk_type |-> r.chunk_type, importance_score |-> r.importance_score] :
        r \in analysed[text]}

ExpanderQueries ==
    {"alpha", " risk ", "market risk", "credit risk sec", "sox sec basel gaap",
     "risk sox", "Basel", "liquidity"}

ExpanderHistories ==
    LET u(content) == Turn("user", content)
        a(content) == Turn("assistant", content)
    IN  {<<>>, <<u("beta")>>, <<a("ok")>>, <<u("beta"), a("ok")>>,
         <<u("beta"), u("sell")>>, <<u("beta"), a("ok"), u("sell")>>,
         <<u("buy"), u("beta"), u("sell")>>, <<a("hi"), u("beta"), u("sell"), a("ok")>>,
         <<u("beta"), a("ok"), a("so")>>}

ExpandInit ==
    /\ config = [retrieval_k |-> MaxStore, rerank_top_k |-> MaxTopK,
                 use_reranking |-> TRUE, use_compression |-> TRUE]
    /\ sentence_model = TRUE
    /\ heap = <<ChunkPool[1].doc>>
    /\ cos_sim = <<ChunkPool[1].cos>>
    /\ nstore = 1
    /\ query \in ExpanderQueries
    /\ conversation_history \in ExpanderHistories
    /\ QaFresh
    /\ IndexFresh
    /\ ApiFresh
    /\ ChunkFresh
    /\ BatchFresh

SpecExpand == ExpandInit /\ [][Preprocess]_vars

(***************************************************************************)
(* intelligent_qa up to the return of _multi_hop_retrieval, for a          *)
(* comparison query on chunks that mention several keywords.  No call      *)
(* raises but the concept searches.                                        *)
(***************************************************************************)
HopPool ==
    << [doc |-> Chunk("risk loss threat decline issue", Rat(4, 5), "risk_disclosure"),
        cos |-> Rat(1, 2)],
       [doc |-> Chunk("compare loss and uncertainty", Rat(1, 2), "general"),
        cos |-> Rat(9, 10)],
       [doc |-> Chunk("loss in the quarter", Zero, "general"), cos |-> Zero] >>

\* the stores: the pool from one of its chunks on, nearest first
HopStores == {SubSeq(HopPool, i, Len(HopPool)) : i \in DOMAIN HopPool}

HopInit ==
    /\ config \in Configs
    /\ sentence_model = TRUE
    /\ \E store \in HopStores :
        /\ heap = [i \in 1..Len(store) |-> store[i].doc]
        /\ cos_sim = [i \in 1..Len(store) |-> store[i].cos]
        /\ nstore = Len(store)
    /\ query = "compare loss"
    /\ conversation_history = <<>>
    /\ QaFresh
    /\ IndexFresh
    /\ ApiFresh
    /\ ChunkFresh
    /\ BatchFresh

HopNext ==
    \/ Preprocess
    \/ Search
    \/ KeywordFilter
    \/ Rerank
    \/ Compress
    \/ MultiHopCheck
    \/ ConceptSearch
    \/ ConceptSearchRaises
    \/ MultiHopReturns

SpecHop == HopInit /\ [][HopNext]_vars

\* the batch has run through all its queries
BatchReturned == batch_i > Len(queries) /\ query_pc = "idle"

IsFailureEntry(entry) == "error" \in DOMAIN entry

(***************************************************************************)
(* C12: batch_answer takes the questions one after the other in the order  *)
(* given: the entries so far belong, in order, to the first questions; a   *)
(* question's entry is a failure entry exactly when its own query_pdf      *)
(* raised, and otherwise it is what query_pdf returned for it; the list    *)
(* returned has one entry for each question.                               *)
(***************************************************************************)
C12_BatchKeepsOrderAndLength ==
    /\ Len(results) = batch_i - 1
    /\ Len(results) <= Len(queries)
    /\ \A i \in DOMAIN results :
        /\ results[i].query = queries[i]
        /\ IsFailureEntry(results[i]) <=> i \in batch_raised
        /\ i \notin batch_raised => results[i] = QueryPdfResult(queries[i])
    /\ BatchReturned => Len(results) = Len(queries)

\* a batch has returned, its first question failed and a later one did not
C12_Witness ==
    /\ BatchReturned
    /\ 1 \in batch_raised
    /\ \E i \in 2..Len(queries) : i \notin batch_raised

(***************************************************************************)
(* C13: a query on a document that has no index raises the index-missing   *)
(* error (FileNotFoundError) at once: the call goes from its start to the  *)
(* raise with nothing loaded, and once it has raised it takes no further   *)
(* step (no load, no intelligent_qa, no second attempt) until the caller   *)
(* calls again.                                                            *)
(***************************************************************************)
C13_MissingIndexRaisesAtOnce ==
    /\ [](query_pc = "raised" => loaded.vectorstore = NoFile /\ loaded.metadata = NoFile)
    /\ [][(query_pc = "idle" /\ query_pc' # "idle" /\ vectorstore_dir = NoFile)
            => query_pc' = "raised"]_vars
    /\ [][query_pc = "raised" => query_pc' \in {"raised", "idle"}]_vars

\* the query was raised while the document's paragraphs are stored and its index is not
C13_Witness ==
    /\ query_pc = "raised"
    /\ storage_file # NoFile
    /\ vectorstore_dir = NoFile

(***************************************************************************)
(* C15: when the source cannot be read (loader.load raises) the run of     *)
(* process_pdf ends there with the error raised: the step that fails       *)
(* leaves the stored paragraphs, the vector index and the metadata         *)
(* side-table of the document as they were, and the run takes no further   *)
(* step.                                                                   *)
(***************************************************************************)
C15_UnreadableSourceLeavesArtefacts ==
    /\ [][\A r \in Runs :
            (At(r, "idle") /\ build_pc'[r] = "unreadable")
            => UNCHANGED <<storage_file, vectorstore_dir, metadata_file>>]_vars
    /\ [][\A r \in Runs : At(r, "unreadable") => build_pc'[r] = "unreadable"]_vars

\* one run could not read its source, the document's three artefacts are those of
\* the other run
C15_Witness ==
    \E r \in Runs, other \in Runs :
        /\ At(r, "unreadable")
        /\ At(other, "done")
        /\ storage_file = WrittenBy(other)
        /\ vectorstore_dir = WrittenBy(other)
        /\ metadata_file = WrittenBy(other)

(***************************************************************************)
(* The claims about the stages of intelligent_qa, checked under Spec.      *)
(***************************************************************************)
\* C14: the Multi-Hop Expander runs before the Context Compressor: when
\* _multi_hop_retrieval starts, _compress_context has not run in this request, so
\* that the chunks multi-hop adds are still to be compressed.
C14_HopBeforeCompression ==
    pc = "hop_search" => ~trace.compressed_before_hop

(***************************************************************************)
(* C16: a transient failure of the generation call is tried again before   *)
(* _generate_answer falls back to its fixed answer: when the call failed   *)
(* for a transient reason, more than one call was made.                    *)
(***************************************************************************)
C16_TransientFailureRetried ==
    trace.failure = "transient" => trace.generation_calls > 1

\* the total_score _keyword_filter computes for the Document r under the processed
\* query
TotalScoreOf(r) ==
    LET query_terms == QueryTerms(processed_query)
        content_lower == Lower(Content(heap, r))
    IN  TotalScore(KeywordScore(query_terms, content_lower),
                   FinancialScore(query_terms, content_lower))

(***************************************************************************)
(* C18: the lexical filter drops a candidate exactly when its total_score  *)
(* is below similarity_threshold * 0.5; a candidate whose total_score is   *)
(* equal to it is kept.                                                    *)
(***************************************************************************)
C18_DroppedIffBelowThreshold ==
    pc = "rerank"
    => \A i \in DOMAIN trace.candidates :
          LET r == trace.candidates[i]
          IN  (r \notin Range(documents))
              <=> RLt(TotalScoreOf(r), RMul(SimilarityThreshold, Rat(1, 2)))

(***************************************************************************)
(* C19: the list handed to the reranker is in non-increasing total_score   *)
(* order and has at most 2 * rerank_top_k candidates.                      *)
(***************************************************************************)
C19_HandedListSortedAndCapped ==
    (pc = "rerank" /\ config.use_reranking /\ Len(documents) > config.rerank_top_k)
    => /\ \A i, j \in DOMAIN documents :
            i < j => RLe(Meta(heap, documents[j])["total_score"],
                         Meta(heap, documents[i])["total_score"])
       /\ Len(documents) <= 2 * config.rerank_top_k

(***************************************************************************)
(* C20: with reranking enabled the reranker stage leaves a list of at most *)
(* rerank_top_k candidates as it is; of a longer list it returns exactly   *)
(* rerank_top_k candidates, all from its input, and none of them has a     *)
(* lower rerank_score than a candidate it discarded.                       *)
(***************************************************************************)
C20_RerankerKeepsBestTopK ==
    config.use_reranking
    => LET input == trace.filtered_docs
           output == trace.reranked_docs
       IN  IF Len(input) <= config.rerank_top_k
           THEN output = input
           ELSE /\ Len(output) = config.rerank_top_k
                /\ Cardinality(Range(output)) = config.rerank_top_k
                /\ Range(output) \subseteq Range(input)
                /\ \A kept \in Range(output), discarded \in Range(input) \ Range(output) :
                      RLe(RerankScoreOf(discarded), RerankScoreOf(kept))

\* the reranker cut a list and discarded a candidate that stood before a kept one
\* and has a lower score
C20_Witness ==
    /\ config.use_reranking
    /\ trace.rerank_ran
    /\ Len(trace.filtered_docs) > config.rerank_top_k
    /\ \E i, j \in DOMAIN trace.filtered_docs :
        /\ i < j
        /\ trace.filtered_docs[i] \notin Range(trace.reranked_docs)
        /\ trace.filtered_docs[j] \in Range(trace.reranked_docs)
        /\ RLt(RerankScoreOf(trace.filtered_docs[i]), RerankScoreOf(trace.filtered_docs[j]))

(***************************************************************************)
(* C21: _compress_context is skipped for at most 3 Documents; otherwise    *)
(* its list has one Document for each Document of its input, in the        *)
(* input's order: the very Document of the input where the model call      *)
(* failed (content and metadata as they were), and elsewhere a compressed  *)
(* Document that carries the input Document's metadata.                    *)
(***************************************************************************)
C21_CompressorKeepsEveryChunk ==
    /\ (trace.retrieve_returned /\ Len(documents) <= 3)
        => (compressed_docs = <<>> /\ trace.retrieved = documents)
    /\ Len(compressed_docs) <= Len(documents)
    /\ (trace.retrieve_returned /\ compressed_docs # <<>>)
        => (Len(compressed_docs) = Len(documents) /\ trace.retrieved = compressed_docs)
    /\ \A i \in DOMAIN compressed_docs :
        LET doc == heap[documents[i]]
            out == heap[compressed_docs[i]]
        IN  IF i \in trace.compression_failed
            THEN compressed_docs[i] = documents[i]
            ELSE /\ compressed_docs[i] # documents[i]
                 /\ out.metadata["compressed"] = TRUE
                 /\ out.metadata["original_length"] = Len(doc.page_content)
                 /\ \A k \in DOMAIN doc.metadata : out.metadata[k] = doc.metadata[k]

\* _compress_context returned four Documents: the call failed for the second and
\* succeeded for another
C21_Witness ==
    /\ trace.retrieve_returned
    /\ Len(compressed_docs) = 4
    /\ 2 \in trace.compression_failed
    /\ trace.compression_failed # DOMAIN compressed_docs
    /\ trace.retrieved[2] = documents[2]

(***************************************************************************)
(* The claims about the Query Expander, checked under SpecExpand.          *)
(***************************************************************************)
\* the context built from the two most recent entries of role user
StatedContext(history) ==
    LET users == UserTurns(history)
    IN  Join(" ", ContextLines(SubSeq(users, Len(users) - 1, Len(users))))

\* C22: for a history with at least two user entries the processed query begins
\* with the context built from the two most recent user entries, whatever other
\* entries separate or follow them.
C22_ContextFromLastTwoUserTurns ==
    (pc = "search" /\ Len(UserTurns(conversation_history)) >= 2)
    => LET context == StatedContext(conversation_history)
       IN  Take(processed_query, Len(context) + 1) = context \o " "

\* the " OR " that join the expansions in the processed query
ExpansionSeparators ==
    {i \in 1..(Len(processed_query) - 3) : SubSeq(processed_query, i, i + 3) = " OR "}

\* C23: the term expansion adds at most 3 expansion variants to the query, however
\* many risk types and regulations it mentions: the processed query joins at most
\* three expansions.
C23_AtMostThreeExpansions ==
    pc = "search" => Cardinality(ExpansionSeparators) + 1 <= 3

(***************************************************************************)
(* The claims about multi-hop retrieval.                                   *)
(***************************************************************************)
\* C24 (under SpecHop): one additional retrieval is issued for each concept
\* extracted, the up to 5 most frequent keywords of the first 3 retained chunks:
\* five concepts, five retrievals.
C24_OneSearchPerConcept ==
    trace.hop_ran => trace.concept_searches = Len(trace.concepts)

\* C28 (under Spec): _deduplicate_documents returns, for each distinct signature
\* of its input, the first Document that carries it, in the input's order.
C28_DedupKeepsFirstOccurrences ==
    trace.hop_ran
    => /\ Len(trace.unique_docs) = Cardinality(FirstOccurrences)
       /\ \A n \in DOMAIN trace.unique_docs :
            trace.unique_docs[n] = HopUnion[NthFirstOccurrence(n)]

\* the input held two different Documents of one signature, the later one ahead of
\* a Document that was kept
C28_Witness ==
    /\ trace.hop_ran
    /\ \E i, j, k \in DOMAIN HopUnion :
        /\ i < j /\ j < k
        /\ HopUnion[i] # HopUnion[j]
        /\ ContentSignature(heap, HopUnion[i]) = ContentSignature(heap, HopUnion[j])
        /\ k \in FirstOccurrences

\* every part of the importance score is at its cap
Saturated(text, feats) ==
    /\ MediumWords <= Len(Split(text)) /\ Len(Split(text)) <= LongWords
    /\ feats.risk_signals >= 3
    /\ feats.financial_terms >= 2
    /\ feats.regulatory_mentions >= 1
    /\ Len(feats.entities) >= 1

(***************************************************************************)
(* C25 (under SpecChunk): no chunk's importance_score is below 0 or above  *)
(* 1, and a chunk that saturates every feature (risk 0.3, financial 0.2,   *)
(* regulatory 0.2, entities 0.1, length 0.2) scores exactly 1.             *)
(***************************************************************************)
C25_SaturatedChunkScoresOne ==
    chunk_pc = "append"
    => /\ ~F64Lt(importance_of_chunk, F64Zero)
       /\ ~F64Lt(F64One, importance_of_chunk)
       /\ Saturated(chunk, features) => importance_of_chunk = F64One


(***************************************************************************)
(* Entity extraction: PDFProcessorService._extract_key_entities on a chunk *)
(* and UnifiedRAGService._extract_key_information on a document's text.    *)
(* A span is a list of phrases set apart by "; ", so that no match runs    *)
(* from one phrase into the next.                                          *)
(***************************************************************************)
MaxRepeat == 16

\* how often a phrase is repeated in a span
Repeats == {0, 1, 5, 6, 10, 11, 15, MaxRepeat}

Repeat(phrase, n) == [i \in 1..n |-> phrase]

\* the spans: amounts, then percentages in two spellings, then dates
Spans ==
    { Repeat("$5 million", a) \o Repeat("5%", b) \o Repeat("5 percent", c)
        \o Repeat("2020-01-02", d) \o <<"risk">> :
      a \in Repeats, b \in Repeats, c \in {0, 1}, d \in {0, 6, 11} }

\* self.risk_entities: each pattern by what re.findall returns for one phrase
monetary_patterns ==
    << [p \in {"$5 million"} |-> "$5 million"],    \* \$[\d,]+...(million|...)?
       [p \in {"USD 5"} |-> "USD 5"],              \* (USD|dollars?)\s*[\d,]+
       [p \in {"$5 million"} |-> "5 million"] >>   \* [\d,]+...\s*(million|...)

percentage_patterns ==
    << [p \in {"5%"} |-> "5%"],                    \* \d+(\.\d+)?%
       [p \in {"5 percent"} |-> "5 percent"],      \* \d+(\.\d+)?\s*percent
       [p \in {} |-> ""] >>                        \* percentage\s*of\s*\d+

date_patterns ==
    << [p \in {"2020-01-02"} |-> "2020"],          \* \d{4}
       [p \in {} |-> ""],                          \* month names
       [p \in {} |-> ""],                          \* \d{1,2}/\d{1,2}/\d{4}
       [p \in {"2020-01-02"} |-> "2020-01-02"] >>  \* \d{4}-\d{2}-\d{2}

\* _extract_key_entities' own patterns; findall returns the year pattern's group
money_pattern == [p \in {"$5 million"} |-> "$5 million"]
percent_pattern == [p \in {"5%"} |-> "5%"]
year_pattern == [p \in {"2020-01-02"} |-> "20"]

\* re.findall(pattern, text): the matches in the order of the text
RECURSIVE findall(_, _)
findall(pattern, text) ==
    IF text = <<>> THEN <<>>
    ELSE (IF Head(text) \in DOMAIN pattern THEN <<pattern[Head(text)]>> ELSE <<>>)
         \o findall(pattern, Tail(text))

\* matches[:n]
Slice(matches, n) == SubSeq(matches, 1, IF Len(matches) < n THEN Len(matches) ELSE n)

\* for pattern in patterns: out.extend(matches[:n])
RECURSIVE ExtendEach(_, _, _, _)
ExtendEach(patterns, text, n, out) ==
    IF patterns = <<>> THEN out
    ELSE ExtendEach(Tail(patterns), text, n, out \o Slice(findall(Head(patterns), text), n))

_extract_key_entities(text) ==
    [monetary_amounts |-> Slice(findall(money_pattern, text), 5),
     percentages |-> Slice(findall(percent_pattern, text), 5),
     dates |-> Slice(findall(year_pattern, text), 5)]

_extract_key_information(text) ==
    [monetary_amounts |-> ExtendEach(monetary_patterns, text, 10, <<>>),
     percentages |-> ExtendEach(percentage_patterns, text, 15, <<>>),
     dates |-> ExtendEach(date_patterns, text, 10, <<>>)]

\* the pipeline, the index, the chunker and the batch are at rest
PipelineIdle ==
    /\ config = [retrieval_k |-> MaxStore, rerank_top_k |-> MaxTopK,
                 use_reranking |-> TRUE, use_compression |-> TRUE]
    /\ sentence_model = TRUE
    /\ heap = <<ChunkPool[1].doc>>
    /\ cos_sim = <<ChunkPool[1].cos>>
    /\ nstore = 1
    /\ query = "alpha"
    /\ conversation_history = <<>>
    /\ QaFresh
    /\ IndexFresh
    /\ ChunkFresh
    /\ BatchFresh

pipelineVars == <<qaVars, indexVars, chunkVars, batchVars>>

EntityInit ==
    /\ PipelineIdle
    /\ TaskFresh
    /\ AnalyzerFresh
    /\ span \in Spans
    /\ key_entities = NoEntities
    /\ key_info = NoEntities
    /\ extracted = {}

\* pdf_processor.py 77: key_entities = self._extract_key_entities(chunk)
ExtractKeyEntities ==
    /\ "key_entities" \notin extracted
    /\ key_entities' = _extract_key_entities(span)
    /\ extracted' = extracted \cup {"key_entities"}
    /\ UNCHANGED <<pipelineVars, taskVars, analyzerVars, span, key_info>>

\* rag_service.py 229: key_info = self._extract_key_information(cleaned_text)
ExtractKeyInformation ==
    /\ "key_info" \notin extracted
    /\ key_info' = _extract_key_information(span)
    /\ extracted' = extracted \cup {"key_info"}
    /\ UNCHANGED <<pipelineVars, taskVars, analyzerVars, span, key_entities>>

EntityNext ==
    \/ ExtractKeyEntities
    \/ ExtractKeyInformation

SpecEntities == EntityInit /\ [][EntityNext]_vars

\* C26: each of the monetary-amount, percentage and date lists an extractor returns
\* holds at most its cap of entries: 5 in the chunk-level extractor, no more than 10
\* in any extractor, however many matches and patterns the span contains.
C26_EntityListsCapped ==
    /\ "key_entities" \in extracted
        => /\ Len(key_entities.monetary_amounts) <= 5
           /\ Len(key_entities.percentages) <= 5
           /\ Len(key_entities.dates) <= 5
    /\ "key_info" \in extracted
        => /\ Len(key_info.monetary_amounts) <= 10
           /\ Len(key_info.percentages) <= 10
           /\ Len(key_info.dates) <= 10


\* C27: in every result intelligent_qa returns, citations holds one entry per
\* retained chunk, in the retained order and numbered 1..n, so that
\* len(citations) = documents_retrieved = len(relevant_documents); in the error
\* result the two lists are empty and documents_retrieved is 0.
C27_OneCitationPerRetainedChunk ==
    Returned
    => /\ Len(result.citations) = result.documents_retrieved
       /\ Len(result.relevant_documents) = result.documents_retrieved
       /\ result.retrieval_strategy = "error" => result.documents_retrieved = 0
       /\ result.retrieval_strategy # "error"
            => /\ result.documents_retrieved = Len(relevant_docs)
               /\ \A i \in 1..Len(relevant_docs) :
                     /\ result.citations[i].id = i
                     /\ result.citations[i].content_preview
                            = Take(heap[relevant_docs[i]].page_content, PreviewLen) \o "..."
                     /\ result.citations[i].relevance_score
                            = result.relevant_documents[i].relevance_score

\* a result citing two different retained chunks
C27_Witness ==
    /\ Returned
    /\ result.retrieval_strategy # "error"
    /\ Len(result.citations) = 2
    /\ result.citations[1].content_preview # result.citations[2].content_preview


(***************************************************************************)
(* The risk-analysis endpoints of main.py.  start_risk_analysis,           *)
(* run_risk_analysis_task and get_analysis_status are coroutines of one    *)
(* event loop: a coroutine runs from one await to the next without any     *)
(* other coroutine running, and run_risk_analysis_task awaits three calls. *)
(***************************************************************************)
MaxTasks == 2

\* Python's None where the value may be a dict
Null == [null |-> TRUE]

\* what services.analyze_risks returns to the task
AnalysisResults == {[results |-> <<>>], [results |-> <<"analysis">>]}

\* repr(e) of what the three awaited calls raise
TaskFailures ==
    [get_paragraphs |-> "FileNotFoundError()", analyze |-> "ValueError()",
     store |-> "OperationalError()"]

\* line 170-175
PendingEntry == [status |-> "pending", progress |-> 0, result |-> Null,
                 error_message |-> None]

\* lines 210-212, with the progress left as it was
Completed_progress_kept(entry, line, res) ==
    CASE line = "210" -> [entry EXCEPT !.status = "completed"]
      [] line = "211" -> entry
      [] line = "212" -> [entry EXCEPT !.result = res]

\* lines 210-212, one assignment each
Completed(entry, line, res) ==
    CASE line = "210" -> [entry EXCEPT !.status = "completed"]
      [] line = "211" -> [entry EXCEPT !.progress = 100]
      [] line = "212" -> [entry EXCEPT !.result = res]

\* lines 216-217, one assignment each
Failed(entry, line, e) ==
    CASE line = "216" -> [entry EXCEPT !.status = "failed"]
      [] line = "217" -> [entry EXCEPT !.error_message = e]

\* the statement after an assignment
NextLine == ("210" :> "211") @@ ("211" :> "212") @@ ("216" :> "217")

TaskInit ==
    /\ PipelineIdle
    /\ EntityFresh
    /\ AnalyzerFresh
    /\ TaskFresh

\* POST /api/analysis/risk: uuid4 gives an id no task has; the handler has no await
StartRiskAnalysis ==
    /\ running = 0
    /\ Len(background_tasks_status) < MaxTasks
    /\ background_tasks_status' = Append(background_tasks_status, PendingEntry)
    /\ frame' = Append(frame, [pc |-> "queued", results |-> Null, e |-> None])
    /\ UNCHANGED <<pipelineVars, entityVars, analyzerVars, running, status_response>>

\* the loop starts the queued task: line 190, then the await of line 193
RunTaskBegin(t) ==
    /\ t \in DOMAIN frame
    /\ running = 0
    /\ frame[t].pc = "queued"
    /\ background_tasks_status' =
           [background_tasks_status EXCEPT ![t].status = "processing"]
    /\ frame' = [frame EXCEPT ![t].pc = "get_paragraphs"]
    /\ UNCHANGED <<pipelineVars, entityVars, analyzerVars, running, status_response>>

\* get_document_paragraphs returns: analyze_risks is called and awaited
ParagraphsReturn(t) ==
    /\ t \in DOMAIN frame
    /\ running = 0
    /\ frame[t].pc = "get_paragraphs"
    /\ frame' = [frame EXCEPT ![t].pc = "analyze"]
    /\ UNCHANGED <<pipelineVars, entityVars, analyzerVars, background_tasks_status, running,
                   status_response>>

\* analyze_risks returns: store_analysis_results is called and awaited
AnalyzeReturn(t) ==
    /\ t \in DOMAIN frame
    /\ running = 0
    /\ frame[t].pc = "analyze"
    /\ \E r \in AnalysisResults :
          frame' = [frame EXCEPT ![t].pc = "store", ![t].results = r]
    /\ UNCHANGED <<pipelineVars, entityVars, analyzerVars, background_tasks_status, running,
                   status_response>>

\* store_analysis_results returns: the task goes on to line 210
StoreReturn(t) ==
    /\ t \in DOMAIN frame
    /\ running = 0
    /\ frame[t].pc = "store"
    /\ frame' = [frame EXCEPT ![t].pc = "210"]
    /\ running' = t
    /\ UNCHANGED <<pipelineVars, entityVars, analyzerVars, background_tasks_status, status_response>>

\* lines 210, 211, 212; the coroutine ends after 212
TaskCompletes(t) ==
    /\ t \in DOMAIN frame
    /\ running = t
    /\ frame[t].pc \in {"210", "211", "212"}
    /\ background_tasks_status' =
           [background_tasks_status EXCEPT
               ![t] = Completed(@, frame[t].pc, frame[t].results)]
    /\ IF frame[t].pc = "212"
       THEN /\ frame' = [frame EXCEPT ![t].pc = "done"]
            /\ running' = 0
       ELSE /\ frame' = [frame EXCEPT ![t].pc = NextLine[@]]
            /\ UNCHANGED running
    /\ UNCHANGED <<pipelineVars, entityVars, analyzerVars, status_response>>

\* one of the three awaited calls raises: except Exception as e, line 215
AwaitedCallRaises(t) ==
    /\ t \in DOMAIN frame
    /\ running = 0
    /\ frame[t].pc \in DOMAIN TaskFailures
    /\ frame' = [frame EXCEPT ![t].pc = "216", ![t].e = TaskFailures[frame[t].pc]]
    /\ running' = t
    /\ UNCHANGED <<pipelineVars, entityVars, analyzerVars, background_tasks_status, status_response>>

\* lines 216, 217; the coroutine ends after 217
TaskFails(t) ==
    /\ t \in DOMAIN frame
    /\ running = t
    /\ frame[t].pc \in {"216", "217"}
    /\ background_tasks_status' =
           [background_tasks_status EXCEPT ![t] = Failed(@, frame[t].pc, frame[t].e)]
    /\ IF frame[t].pc = "217"
       THEN /\ frame' = [frame EXCEPT ![t].pc = "done"]
            /\ running' = 0
       ELSE /\ frame' = [frame EXCEPT ![t].pc = NextLine[@]]
            /\ UNCHANGED running
    /\ UNCHANGED <<pipelineVars, entityVars, analyzerVars, status_response>>

\* GET /api/analysis/status/{task_id}: no await in the handler
GetAnalysisStatus(task_id) ==
    /\ running = 0
    /\ status_response' =
          IF task_id \notin DOMAIN background_tasks_status
          THEN [code |-> 404]
          ELSE LET status_data == background_tasks_status[task_id]
               IN  [code |-> 200, task_id |-> task_id, status |-> status_data.status,
                    progress |-> status_data.progress, result |-> status_data.result,
                    error_message |-> status_data.error_message]
    /\ UNCHANGED <<pipelineVars, entityVars, analyzerVars, background_tasks_status, frame, running>>

TaskNext ==
    \/ StartRiskAnalysis
    \/ \E t \in 1..MaxTasks : RunTaskBegin(t)
    \/ \E t \in 1..MaxTasks : ParagraphsReturn(t)
    \/ \E t \in 1..MaxTasks : AnalyzeReturn(t)
    \/ \E t \in 1..MaxTasks : StoreReturn(t)
    \/ \E t \in 1..MaxTasks : TaskCompletes(t)
    \/ \E t \in 1..MaxTasks : AwaitedCallRaises(t)
    \/ \E t \in 1..MaxTasks : TaskFails(t)
    \/ \E task_id \in 1..MaxTasks : GetAnalysisStatus(task_id)

SpecTasks == TaskInit /\ [][TaskNext]_vars

\* the moves a status may make
StatusMoves == {<<"pending", "processing">>, <<"processing", "completed">>,
                <<"processing", "failed">>}

\* an entry as a poll or another task may meet it
WellFormedEntry(entry) ==
    /\ entry.status \in {"pending", "processing", "completed", "failed"}
    /\ entry.status = "completed" => entry.progress = 100 /\ entry.result # Null
    /\ entry.status = "failed" => entry.error_message # None /\ entry.result = Null

\* C29: a task's status only moves pending -> processing -> completed or
\* pending -> processing -> failed, completed and failed are never left, a new
\* task is pending; whenever a poll or another task can run (and in every answer
\* of a poll) a completed task has progress 100 and a result, a failed task has
\* an error_message and no result.
C29_TaskStatusLifecycle ==
    /\ [](running = 0 => \A t \in DOMAIN background_tasks_status :
                            WellFormedEntry(background_tasks_status[t]))
    /\ [](status_response.code = 200 => WellFormedEntry(status_response))
    /\ [][\A t \in DOMAIN background_tasks_status' :
             IF t \in DOMAIN background_tasks_status
             THEN \/ background_tasks_status'[t].status = background_tasks_status[t].status
                  \/ <<background_tasks_status[t].status,
                       background_tasks_status'[t].status>> \in StatusMoves
             ELSE background_tasks_status'[t].status = "pending"]_vars

\* two tasks have ended, one completed and one failed, and a poll has answered
\* with a completed task while the other was still being processed
C29_Witness ==
    /\ Len(background_tasks_status) = 2
    /\ \E t, u \in DOMAIN background_tasks_status :
          /\ background_tasks_status[t].status = "completed"
          /\ background_tasks_status[u].status = "failed"
    /\ status_response.code = 200
    /\ status_response.status = "completed"


(***************************************************************************)
(* RiskAnalyzerService.analyze_risks: one coroutine per (prompt key,       *)
(* paragraph) pair, gathered with return_exceptions=True.                  *)
(***************************************************************************)
MaxPrompts == 2
MaxParagraphs == 2

\* the keys of utils.prompt_registry.PROMPT_REGISTRY that the model uses
PROMPT_REGISTRY == {"risk_classifier", "compliance_audit_v2"}

PromptKeys == PROMPT_REGISTRY \cup {"unknown_prompt"}

\* paragraph dicts; one has no "text" key
ParagraphDicts == {[text |-> "debt covenant"], [text |-> "currency exposure"],
                   [page |-> 1]}

UpTo(S, n) == UNION {[1..k -> S] : k \in 0..n}

\* get_prompt_by_id: the template, or the ValueError it raises
get_prompt_by_id(prompt_id) ==
    IF prompt_id \notin PROMPT_REGISTRY
    THEN [raised |-> TRUE, e |-> "ValueError"]
    ELSE [raised |-> FALSE, template |-> prompt_id]

\* "text" in para
HasText(para) == "text" \in DOMAIN para

\* lines 47-51: the coroutines one prompt adds to tasks
TasksOf(prompt_key, paras) ==
    LET valid == SelectSeq(paras, HasText)
    IN  [i \in 1..Len(valid) |-> [prompt |-> prompt_key, para |-> valid[i]]]

\* _analyze_single_paragraph: the dict it returns, or the exception it raises again
_analyze_single_paragraph(task, failing) ==
    IF <<task.prompt, task.para.text>> \in failing
    THEN [exception |-> TRUE]
    ELSE [exception |-> FALSE, paragraph |-> task.para.text, analysis |-> "parsed",
          prompt |-> task.prompt]

IsNotException(r) == ~r.exception

AnalyzerInit ==
    /\ PipelineIdle
    /\ EntityFresh
    /\ TaskFresh
    /\ prompts \in UpTo(PromptKeys, MaxPrompts)
    /\ paragraphs \in UpTo(ParagraphDicts, MaxParagraphs)
    /\ ainvoke_raises \in SUBSET {<<"risk_classifier", "debt covenant">>,
                                  <<"compliance_audit_v2", "currency exposure">>}
    /\ prompt_i = 1
    /\ tasks = <<>>
    /\ analyzer_pc = "start"
    /\ analysis = [raised |-> FALSE, results |-> <<>>]

\* line 30-32
AnalyzeNothing ==
    /\ analyzer_pc = "start"
    /\ paragraphs = <<>> \/ prompts = <<>>
    /\ analysis' = [raised |-> FALSE, results |-> <<>>]
    /\ analyzer_pc' = "done"
    /\ UNCHANGED <<pipelineVars, entityVars, taskVars, prompts, paragraphs,
                   ainvoke_raises, prompt_i, tasks>>

\* lines 34-40
AnalyzeRisks ==
    /\ analyzer_pc = "start"
    /\ paragraphs # <<>> /\ prompts # <<>>
    /\ tasks' = <<>>
    /\ prompt_i' = 1
    /\ analyzer_pc' = "for"
    /\ UNCHANGED <<pipelineVars, entityVars, taskVars, prompts, paragraphs,
                   ainvoke_raises, analysis>>

\* one turn of the loop over prompts, lines 41-51
PromptTurn ==
    /\ analyzer_pc = "for"
    /\ prompt_i <= Len(prompts)
    /\ LET prompt_config == get_prompt_by_id(prompts[prompt_i])
       IN  /\ ~prompt_config.raised
           /\ IF prompt_config.template = None
              THEN UNCHANGED tasks    \* if not prompt_config: continue
              ELSE tasks' = tasks \o TasksOf(prompts[prompt_i], paragraphs)
    /\ prompt_i' = prompt_i + 1
    /\ UNCHANGED <<pipelineVars, entityVars, taskVars, prompts, paragraphs,
                   ainvoke_raises, analyzer_pc, analysis>>

\* get_prompt_by_id raises at line 42: except Exception at 54, raise at 56
PromptLookupRaises ==
    /\ analyzer_pc = "for"
    /\ prompt_i <= Len(prompts)
    /\ get_prompt_by_id(prompts[prompt_i]).raised
    /\ analysis' = [raised |-> TRUE, results |-> <<>>]
    /\ analyzer_pc' = "done"
    /\ UNCHANGED <<pipelineVars, entityVars, taskVars, prompts, paragraphs,
                   ainvoke_raises, prompt_i, tasks>>

\* lines 52-53: gather keeps the order of tasks, the exceptions are left out
Gather ==
    /\ analyzer_pc = "for"
    /\ prompt_i > Len(prompts)
    /\ LET gathered == [i \in 1..Len(tasks) |->
                           _analyze_single_paragraph(tasks[i], ainvoke_raises)]
       IN  analysis' = [raised |-> FALSE, results |-> SelectSeq(gathered, IsNotException)]
    /\ analyzer_pc' = "done"
    /\ UNCHANGED <<pipelineVars, entityVars, taskVars, prompts, paragraphs,
                   ainvoke_raises, prompt_i, tasks>>

AnalyzerNext ==
    \/ AnalyzeNothing
    \/ AnalyzeRisks
    \/ PromptTurn
    \/ PromptLookupRaises
    \/ Gather

SpecAnalyzer == AnalyzerInit /\ [][AnalyzerNext]_vars

\* the pairs in submission order: prompt-major, paragraph-minor
RECURSIVE SubmittedPairs(_, _)
SubmittedPairs(keys, paras) ==
    IF keys = <<>> THEN <<>>
    ELSE [i \in 1..Len(paras) |-> [prompt |-> Head(keys), para |-> paras[i]]]
         \o SubmittedPairs(Tail(keys), paras)

\* a pair that can be analysed and whose analysis did not fail
Succeeds(pair) ==
    /\ pair.prompt \in PROMPT_REGISTRY
    /\ HasText(pair.para)
    /\ <<pair.prompt, pair.para.text>> \notin ainvoke_raises

\* C30: analyze_risks does not fail because one (prompt, paragraph) pair failed or
\* because a prompt key is not in the registry: it returns, and its results are
\* the analyses of exactly the pairs that succeeded, in submission order
\* (prompt-major, paragraph-minor), the unknown prompt being skipped.
C30_PartialFailureTolerated ==
    analyzer_pc = "done"
    => /\ ~analysis.raised
       /\ LET expected == SelectSeq(SubmittedPairs(prompts, paragraphs), Succeeds)
          IN  /\ Len(analysis.results) = Len(expected)
              /\ \A i \in 1..Len(expected) :
                    /\ analysis.results[i].prompt = expected[i].prompt
                    /\ analysis.results[i].paragraph = expected[i].para.text

====
